---- MODULE Spec2Model ----
(***************************************************************************)
(* Model of the scraping core of src/src/scraper/nitter_scraper.py:        *)
(* scrape_x_posts (load of the checkpoint, navigation, the paging loop,    *)
(* the per-item filter / dedup / append, the checkpoint cadence, the stall *)
(* logic, the success path and the two exception handlers) and             *)
(* save_checkpoint (temp file, then os.replace).                           *)
(*                                                                         *)
(* One process runs crawls one after the other; what survives from one     *)
(* crawl to the next is the file system (ckpt, tmp).  The browser is the   *)
(* environment: what it shows on a page, which element lookups fail, when  *)
(* it times out and when the user interrupts are nondeterministic inputs.  *)
(***************************************************************************)
EXTENDS Integers, Sequences, FiniteSets, TLC

VARIABLES
    ckpt,        \* the file at the canonical checkpoint path
    tmp,         \* the file at "<checkpoint_file>.tmp"
    pc,          \* position of the process inside scrape_x_posts ("idle": not in it)
    cont,        \* where save_checkpoint returns to
    tweet_type,  \* argument of scrape_x_posts
    num_scrolls, \* argument of scrape_x_posts
    posts,       \* local: the accumulated records
    seen_ids,    \* local: the seen-id set
    start_scroll,\* local: cursor restored by the load
    scrolls,     \* local: the scroll cursor (meaningful when scrolls_bound)
    scrolls_bound, \* whether the local name scrolls has been assigned (line 258)
    no_new_content_count,   \* local: the stall counter
    new_tweets_this_scroll, \* local: records accepted in the current step
    grown,       \* document.body.scrollHeight differs from the local last_height
    driver,      \* "none" | "open" | "quit": the browser session of the crawl
    outcome,     \* how the last crawl ended, and what it returned
    event,       \* "ki": the last step delivered a KeyboardInterrupt; else "none"
    saved,       \* history: the arguments of the save that wrote the file at ckpt
    crawls,      \* number of crawls started so far
    feed,        \* the pages a scripted browser shows, one per step (<<>>: any page)
    disk,        \* the export directory: what each file name holds
    clock,       \* the wall clock, in seconds
    exports,     \* number of export_to_csv calls so far
    last,        \* the last export_to_csv call: its arguments and what it did
    input,       \* the argument the helper functions are called with
    cache,       \* the lru_cache of the helper under call: <<argument, result>> pairs
    returned     \* what the calls on input have returned so far, in order


\* the calls of the helper functions
calls == <<input, cache, returned>>

\* what lies outside a crawl: the scripted feed, the export directory, the clock,
\* the helper calls
outside == <<feed, disk, clock, exports, last, calls>>

vars == <<ckpt, tmp, pc, cont, tweet_type, num_scrolls, posts, seen_ids,
          start_scroll, scrolls, scrolls_bound, no_new_content_count,
          new_tweets_this_scroll, grown, driver, outcome, event,
          saved, crawls, outside>>

(***************************************************************************)
(* Bounds of the model.                                                    *)
(***************************************************************************)
MaxCrawls == 2      \* crawls run one after the other
MaxPerPage == 2     \* containers visible on one page
MaxTarget == 6      \* largest num_scrolls a crawl is called with
MinTarget == 2      \* smallest num_scrolls a crawl is called with
FeedPages == 2      \* pages of a scripted feed
MaxExports == 3     \* export_to_csv calls
MaxClock == 2       \* seconds the wall clock runs on
MaxUrl == 6         \* characters of a permalink text
MaxCalls == 2       \* calls of a helper on its input
CacheSize == 1      \* entries an lru_cache holds (maxsize, scaled down)
MaxText == 4        \* characters of a counter text
MaxHandle == 4      \* characters of an account handle
MaxScore == 10000   \* largest compound score, in ten-thousandths
MaxChars == 6       \* characters of a text to clean
MaxElements == 2    \* elements a find_elements call returns
MaxRows == 6        \* rows of an export file

(***************************************************************************)
(* Program constants.                                                      *)
(***************************************************************************)
CheckpointEvery == 5   \* "if scrolls % 5 == 0 or scrolls == num_scrolls"
StallLimit == 3        \* "if no_new_content_count >= 3"
Precision == 53        \* bits of the significand of a float
LimbBits == 16         \* bits of a limb of the significand
HexDigestLen == 64     \* hexadecimal digits of a SHA-256 digest
TokenLen == 16         \* "hexdigest()[:16]"
Threshold == 500       \* "compound_score >= 0.05", in ten-thousandths

TweetTypes == {"original", "original_and_quotes", "all"}

(***************************************************************************)
(* Helpers on sequences and sets.                                          *)
(***************************************************************************)
Range(s) == {s[i] : i \in 1..Len(s)}

NoDup(s) == \A i, j \in 1..Len(s) : i # j => s[i] # s[j]

RECURSIVE Select(_, _)
Select(s, S) ==        \* the elements of s that are in S, in the order of s
    IF s = <<>> THEN <<>>
    ELSE (IF Head(s) \in S THEN <<Head(s)>> ELSE <<>>) \o Select(Tail(s), S)

(***************************************************************************)
(* The feed.  A text is the sequence of its characters; a run of letters   *)
(* that is never split ("status", "user", "nitter.net") is written as one  *)
(* element.  The items of the catalogue are the rendered containers the    *)
(* browser can show.                                                       *)
(***************************************************************************)
NoId == <<"None">>
Digits == {"0", "1", "2", "3", "4", "5", "6", "7", "8", "9"}
IdOrder == << <<"1">>, <<"2">>, <<"3">>, <<"4">>, <<"5">>, <<"6">>, <<"7">>, <<"8">>, <<"9">> >>

\* list(seen_ids): the ids of the set, each once.  The order in which a set
\* iterates is not observable here (the only reader of the list, line 220, builds
\* a set from it); the model lists the ids in increasing order.
ListOf(S) == Select(IdOrder, S)

\* the positions where r"/status/(\d+)" matches: "/status/" followed by a digit
StatusAt(url) ==
    {i \in 1..(Len(url) - 3) : /\ url[i] = "/" /\ url[i + 1] = "status" /\ url[i + 2] = "/"
                               /\ url[i + 3] \in Digits}

\* (\d+) is greedy: the longest run of digits that starts at position i
RECURSIVE DigitRun(_, _)
DigitRun(url, i) ==
    IF i > Len(url) \/ url[i] \notin Digits THEN <<>>
    ELSE <<url[i]>> \o DigitRun(url, i + 1)

\* the group of the last match instead of the first
LastStatusId(url) ==
    IF url = <<>> \/ StatusAt(url) = {} THEN NoId
    ELSE LET i == CHOOSE k \in StatusAt(url) : \A m \in StatusAt(url) : k >= m
         IN  DigitRun(url, i + 3)

\* extract_tweet_id: re.search(r"/status/(\d+)", url), None for no url / no match
extract_tweet_id(url) ==
    IF url = <<>> \/ StatusAt(url) = {} THEN NoId
    ELSE LET i == CHOOSE k \in StatusAt(url) : \A m \in StatusAt(url) : k <= m
         IN  DigitRun(url, i + 3)

Catalogue ==
    { [href |-> <<"nitter.net", "/", "user", "/", "status", "/", "1">>, retweet_header |-> FALSE,
       quote |-> FALSE, date |-> 2],
      [href |-> <<"nitter.net", "/", "user", "/", "status", "/", "2">>, retweet_header |-> TRUE,
       quote |-> FALSE, date |-> 1],
      [href |-> <<"nitter.net", "/", "user", "/", "status", "/", "3">>, retweet_header |-> FALSE,
       quote |-> TRUE, date |-> 3],
      [href |-> <<"nitter.net", "/", "user">>, retweet_header |-> FALSE,
       quote |-> FALSE, date |-> 2] }

is_retweet(container) == container.retweet_header
is_quote_tweet(container) == container.quote

(***************************************************************************)
(* Files.  A file is absent, a complete JSON snapshot, or the partial text *)
(* of an interrupted write.  The wall-clock "timestamp" field of the       *)
(* snapshot is never read back and is left out.                            *)
(***************************************************************************)
Absent == [kind |-> "absent", posts |-> <<>>, seen_ids |-> <<>>, scroll_count |-> 0]
Partial == [kind |-> "partial", posts |-> <<>>, seen_ids |-> <<>>, scroll_count |-> 0]

\* json.dump of checkpoint_data (lines 187-196)
Snapshot(p, seen, c) ==
    [kind |-> "snapshot", posts |-> p, seen_ids |-> ListOf(seen), scroll_count |-> c]

Exists(file) == file.kind # "absent"

\* lines 211-224: the three locals in assignment order; an exception raised by
\* json.load or by one of the assignments leaves the locals assigned so far
FreshState == [posts |-> <<>>, seen_ids |-> {}, start_scroll |-> 0]

\* a load that rebuilds the seen-id set from the restored records instead of
\* reading the 'seen_ids' field
LoadCheckpointIdsOfPosts(file) ==
    CASE file.kind = "snapshot" ->
            [posts |-> file.posts,
             seen_ids |-> {file.posts[i].tweet_id : i \in 1..Len(file.posts)},
             start_scroll |-> file.scroll_count]
      [] file.kind = "bad_seen_ids" ->
            [posts |-> file.posts, seen_ids |-> {}, start_scroll |-> 0]
      [] OTHER -> FreshState

LoadCheckpoint(file) ==
    CASE file.kind = "absent" -> FreshState
      [] file.kind = "snapshot" ->
            [posts |-> file.posts, seen_ids |-> Range(file.seen_ids),
             start_scroll |-> file.scroll_count]
      [] file.kind = "bad_seen_ids" ->      \* set(<a number>) raises TypeError
            [posts |-> file.posts, seen_ids |-> {}, start_scroll |-> 0]
      [] OTHER -> FreshState                \* json.load raises, or .get is missing

(***************************************************************************)
(* The type filter and the dedup test (lines 250-252 and 276-296).         *)
(***************************************************************************)
filter_retweets(tt) == tt \in {"original", "original_and_quotes"}
filter_quotes(tt) == tt = "original"

PassesFilter(c, tt) ==
    /\ ~(filter_retweets(tt) /\ is_retweet(c))
    /\ ~(filter_quotes(tt) /\ is_quote_tweet(c))

\* a dedup test that forgets the seen-id set
IsNewIgnoringSeen(id, seen) == id # NoId

IsNew(id, seen) == id # NoId /\ id \notin seen

\* an admission that forgets the test "not tweet_id"
AdmittedUnresolved(c, tt, seen) ==
    PassesFilter(c, tt) /\ extract_tweet_id(c.href) \notin seen

Admitted(c, tt, seen) == PassesFilter(c, tt) /\ IsNew(extract_tweet_id(c.href), seen)

\* lines 325-342, the fields the crawl itself decides on
Record(c) ==
    [tweet_id |-> extract_tweet_id(c.href), created_at |-> c.date,
     is_retweet |-> is_retweet(c), is_quote |-> is_quote_tweet(c)]

\* a sort that forgets reverse=True: stable, ascending
RECURSIVE SortAsc(_)
SortAsc(s) ==
    IF s = <<>> THEN <<>>
    ELSE LET rest == SortAsc(Tail(s))
             x == Head(s)
             k == Cardinality({i \in 1..Len(rest) : rest[i].created_at < x.created_at})
         IN  SubSeq(rest, 1, k) \o <<x>> \o SubSeq(rest, k + 1, Len(rest))

\* posts.sort(key=created_at, reverse=True): stable, descending
RECURSIVE SortDesc(_)
SortDesc(s) ==
    IF s = <<>> THEN <<>>
    ELSE LET rest == SortDesc(Tail(s))
             x == Head(s)
             \* x goes before every element that is not later than it
             k == Cardinality({i \in 1..Len(rest) : rest[i].created_at > x.created_at})
         IN  SubSeq(rest, 1, k) \o <<x>> \o SubSeq(rest, k + 1, Len(rest))

NoSave == [valid |-> FALSE, posts |-> <<>>, seen_ids |-> {}, scroll_count |-> 0]
SaveOf(p, seen, c) == [valid |-> TRUE, posts |-> p, seen_ids |-> seen, scroll_count |-> c]

NoOutcome == [kind |-> "none", path |-> "none", phase |-> "none", posts |-> <<>>]

(***************************************************************************)
(* Scripted feeds: the lists of containers the bounded wait returns, one   *)
(* per pagination step.                                                    *)
(***************************************************************************)
Original(id) ==
    [href |-> <<"nitter.net", "/", "user", "/", "status", "/", id>>, retweet_header |-> FALSE,
     quote |-> FALSE, date |-> 2]

Retweet(id) == [Original(id) EXCEPT !.retweet_header = TRUE, !.date = 1]

Quote(id) == [Original(id) EXCEPT !.quote = TRUE, !.date = 3]

NoPermalinkId == [Original("0") EXCEPT !.href = <<"nitter.net", "/", "user">>]

\* 12 items on 3 pages: ids 1 and 5 are shown again on a later page, one item
\* has a permalink without "/status/<digits>"
TwelveItems ==
    << <<Original("1"), Retweet("2"), Quote("3"), Original("4")>>,
       <<Original("5"), Original("6"), Original("1"), NoPermalinkId>>,
       <<Retweet("7"), Original("8"), Quote("9"), Original("5")>> >>

FeedItems == {Original("1"), Retweet("2"), NoPermalinkId}

FeedPagesOf(k) == [1..k -> [1..MaxPerPage -> FeedItems]]

Feeds == FeedPagesOf(FeedPages) \cup {TwelveItems}

(***************************************************************************)
(* export_to_csv, lines 420-525: the data.  A file name is its stem        *)
(* "<username>_tweets" with no suffix ("base"), with "_<counter>"          *)
(* ("increment") or with "_<%Y%m%d_%H%M%S>" ("timestamp"); the save        *)
(* directory and the user name are the same in every call.                 *)
(***************************************************************************)
BaseName == [kind |-> "base", n |-> 0]
IncrementName(counter) == [kind |-> "increment", n |-> counter]
TimestampName(now) == [kind |-> "timestamp", n |-> now]
NoPath == [kind |-> "none", n |-> 0]

FileNames ==
    {BaseName} \cup {IncrementName(k) : k \in 1..MaxExports}
               \cup {TimestampName(c) : c \in 0..MaxClock}

NoCsv == [exists |-> FALSE, rows |-> <<>>]
Csv(rows) == [exists |-> TRUE, rows |-> rows]

\* A list-valued field is a value with the number of times it went through
\* json.dumps: 0 for the Python list, 1 for the JSON text of the list, 2 for the
\* JSON text of that text (a JSON string), ...
List(v) == [depth |-> 0, value |-> v]
json_dumps(x) == [x EXCEPT !.depth = @ + 1]
json_loads(x) == [x EXCEPT !.depth = @ - 1]

\* the dicts scrape_x_posts returns (lines 325-342), the fields the export reads
Tweet(id, date, u, h) ==
    [tweet_id |-> id, created_at |-> date, urls |-> List(u), hashtags |-> List(h),
     mentions |-> List(<<>>), media |-> List(<<>>)]

ExportInputs ==
    { <<Tweet("1", 2, <<"u1">>, <<>>), Tweet("2", 1, <<>>, <<"h2">>)>>,
      <<Tweet("2", 3, <<"u2">>, <<>>), Tweet("3", 3, <<>>, <<>>)>>,
      <<Tweet("3", 1, <<>>, <<"h3">>)>>,
      <<>> }

ExportModes == {"timestamp", "increment", "ask", "merge", "overwrite"}

NoExport == [mode |-> "none", tweets |-> <<>>, asked |-> FALSE, response |-> "none",
             path |-> NoPath]

(***************************************************************************)
(* Initial state: no crawl has run, no checkpoint exists, the export       *)
(* directory is empty.                                                     *)
(***************************************************************************)
InitCrawl ==
    /\ ckpt = Absent
    /\ tmp = Absent
    /\ pc = "idle"
    /\ cont = "none"
    /\ tweet_type = "original"
    /\ num_scrolls = MinTarget
    /\ posts = <<>>
    /\ seen_ids = {}
    /\ start_scroll = 0
    /\ scrolls = 0
    /\ scrolls_bound = FALSE
    /\ no_new_content_count = 0
    /\ new_tweets_this_scroll = 0
    /\ grown = FALSE
    /\ driver = "none"
    /\ outcome = NoOutcome
    /\ event = "none"
    /\ saved = NoSave
    /\ crawls = 0

InitExport ==
    /\ disk = [f \in FileNames |-> NoCsv]
    /\ clock = 0
    /\ exports = 0
    /\ last = NoExport

\* no helper is under call
InitNoCall ==
    /\ input = <<>>
    /\ cache = <<>>
    /\ returned = <<>>

Init == InitCrawl /\ feed = <<>> /\ InitExport /\ InitNoCall

\* the browser is scripted: it shows the pages of one of the feeds
InitFeed == InitCrawl /\ feed \in Feeds /\ InitExport /\ InitNoCall

files == <<ckpt, tmp, saved>>
args == <<tweet_type, num_scrolls>>
acc == <<posts, seen_ids>>
cursor == <<start_scroll, scrolls, scrolls_bound>>
stall == <<no_new_content_count, new_tweets_this_scroll>>
browser == <<grown>>

\* Control leaves the while loop: its locals (the stall counter, the count of the
\* step, the remembered height) are not read again.
LoopLocalsDead ==
    /\ no_new_content_count' = 0
    /\ new_tweets_this_scroll' = 0
    /\ grown' = FALSE

\* The function returns or raises: finally: driver.quit() (line 413) ends the
\* browser session, and the locals of the call are gone.
Release(d) == "quit"

Leave ==
    /\ driver' = Release(driver)
    /\ posts' = <<>>
    /\ seen_ids' = {}
    /\ start_scroll' = 0
    /\ scrolls' = 0
    /\ scrolls_bound' = FALSE
    /\ LoopLocalsDead

(***************************************************************************)
(* scrape_x_posts, lines 204-252: load the checkpoint, create the driver.  *)
(***************************************************************************)
StartCrawl(tt, n) ==
    /\ pc = "idle"
    /\ crawls < MaxCrawls
    /\ tweet_type' = tt
    /\ num_scrolls' = n
    /\ LET l == LoadCheckpoint(ckpt)
       IN  /\ posts' = l.posts
           /\ seen_ids' = l.seen_ids
           /\ start_scroll' = l.start_scroll
    /\ scrolls' = 0
    /\ scrolls_bound' = FALSE
    /\ no_new_content_count' = 0
    /\ new_tweets_this_scroll' = 0
    /\ grown' = FALSE
    /\ driver' = "open"
    /\ outcome' = NoOutcome
    /\ event' = "none"
    /\ crawls' = crawls + 1
    /\ pc' = "nav"
    /\ UNCHANGED <<files, cont, outside>>


(***************************************************************************)
(* Lines 245-248: between the creation of the driver (line 244) and the    *)
(* try statement (line 254): set_page_load_timeout, WebDriverWait,         *)
(* hash_username.  An exception or a KeyboardInterrupt raised there leaves *)
(* the function at once: no handler and no finally clause is in force.     *)
(***************************************************************************)
SetupFails ==
    /\ pc = "nav"
    /\ pc' = "idle"
    /\ outcome' = [outcome EXCEPT !.kind = "raised", !.path = "failed", !.phase = "setup"]
    /\ posts' = <<>>
    /\ seen_ids' = {}
    /\ start_scroll' = 0
    /\ UNCHANGED <<scrolls, scrolls_bound>>
    /\ event' = "none"
    /\ UNCHANGED <<files, cont, args, stall, browser, driver, crawls, outside>>

(***************************************************************************)
(* Lines 254-261: navigation, settle delay, first reading of the height.   *)
(* r = "ok"; "timeout" / "error": driver.get or the sleep raises before    *)
(* line 258 has bound scrolls; "interrupt": KeyboardInterrupt there;       *)
(* "late_error": execute_script of line 260 raises, scrolls being bound.   *)
(***************************************************************************)
NavResults == {"ok", "timeout", "error", "interrupt", "late_error"}

Navigate(r) ==
    /\ pc = "nav"
    /\ IF r \in {"ok", "late_error"}
       THEN /\ scrolls' = start_scroll
            /\ scrolls_bound' = TRUE
       ELSE UNCHANGED <<scrolls, scrolls_bound>>
    /\ grown' = FALSE          \* line 260: last_height is the height of the page
    /\ pc' = CASE r = "ok" -> "loop"
               [] r = "interrupt" -> "handler_ki"
               [] OTHER -> "handler_exc"
    /\ event' = IF r = "interrupt" THEN "ki" ELSE "none"
    /\ outcome' = IF r = "ok" THEN outcome
                  ELSE [outcome EXCEPT !.phase = "nav",
                            !.path = IF r = "interrupt" THEN "interrupted" ELSE "failed"]
    /\ UNCHANGED <<files, cont, args, acc, start_scroll, stall, driver, crawls, outside>>

(***************************************************************************)
(* Lines 274-351: the body of the for loop for one container.  o says what *)
(* the browser and the user do while it is processed:                      *)
(*   "ok"           every lookup succeeds                                  *)
(*   "no_permalink" ".tweet-date a" is missing or stale (line 289), or a   *)
(*                  lookup before it raises (lines 348-351)                *)
(*   "no_content"   ".tweet-content" is missing or stale (line 302), or a  *)
(*                  later lookup raises an Exception (lines 348-351)       *)
(*   "ki_early"     KeyboardInterrupt in the loop body before line 296     *)
(*   "ki_after_add" KeyboardInterrupt in the loop body after line 296      *)
(*   "ki_in_helper" KeyboardInterrupt inside a helper whose body is        *)
(*                  wrapped in a bare "except:" (lines 35, 51, 76, 99,     *)
(*                  119, 153, 179): the helper returns its default         *)
(* st is [posts, seen_ids, new, stopped, swallowed]: the three locals,     *)
(* whether a KeyboardInterrupt left the loop, whether one was swallowed.   *)
(***************************************************************************)
ItemResults == {"ok", "no_permalink", "no_content", "ki_early", "ki_after_add",
                "ki_in_helper"}

\* "ki_in_helper" changes no local of the crawl, so that it shows in event only
ItemResultsSeen == ItemResults \ {"ki_in_helper"}

\* a for loop that a failed lookup leaves as well
LeavesLoopOnError(o, admitted) ==
    o \in {"ki_early", "no_permalink"} \/ (admitted /\ o \in {"ki_after_add", "no_content"})

\* lines 289, 302, 348-351: the except clauses of the loop body catch Exception
\* and continue; a KeyboardInterrupt is no Exception and leaves the for loop
LeavesLoop(o, admitted) == o = "ki_early" \/ (admitted /\ o = "ki_after_add")

\* an accumulation that takes the new record in front
PostsPrepend(p, r) == <<r>> \o p

\* line 325: posts.append({...})
PostsAppend(p, r) == Append(p, r)

SeenKeep(seen, id) == seen

\* line 296: seen_ids.add(tweet_id)
SeenAdd(seen, id) == seen \cup {id}

ProcessItem(c, o, tt, st) ==
    LET id == extract_tweet_id(c.href)
        admitted == o \notin {"no_permalink", "ki_early"} /\ Admitted(c, tt, st.seen_ids)
        appended == admitted /\ o \in {"ok", "ki_in_helper"}
    IN  [posts |-> IF appended THEN PostsAppend(st.posts, Record(c)) ELSE st.posts,
         seen_ids |-> IF admitted THEN SeenAdd(st.seen_ids, id) ELSE st.seen_ids,
         new |-> IF appended THEN st.new + 1 ELSE st.new,
         stopped |-> LeavesLoop(o, admitted),
         swallowed |-> st.swallowed \/ (admitted /\ o = "ki_in_helper")]

\* the for loop of line 274 over a page of at most k more containers, in DOM
\* order, from each of the states R: every state the loop can end in, over the
\* containers the browser can show and over what can happen to each of them
RECURSIVE ProcessPage(_, _, _, _)
ProcessPage(R, k, tt, results) ==
    IF k = 0 THEN {}
    ELSE LET R1 == UNION { {ProcessItem(c, o, tt, st) : c \in Catalogue, o \in results} :
                            st \in R }
         IN  R1 \cup ProcessPage({st \in R1 : ~st.stopped}, k - 1, tt, results)

(***************************************************************************)
(* save_checkpoint, lines 185-197.  A call either runs as one step (the    *)
(* temp file is written and renamed over the canonical path) or, with      *)
(* stepwise, as one step per file-system operation: SaveOpen, SaveDump,    *)
(* SaveReplace, after which the caller goes on at k.                       *)
(***************************************************************************)
Replaced(old, new) == new      \* os.replace(temp_file, checkpoint_file)

save_checkpoint(p, seen, c, k, stepwise) ==
    IF stepwise
    THEN /\ pc' = "save_open"
         /\ cont' = k
         /\ UNCHANGED files
    ELSE /\ ckpt' = Replaced(ckpt, Snapshot(p, seen, c))
         /\ tmp' = Absent
         /\ saved' = SaveOf(p, seen, c)
         /\ pc' = k
         /\ UNCHANGED cont

\* a save that opens the canonical path itself for writing
SaveOpenInPlace ==
    /\ pc = "save_open"
    /\ ckpt' = Partial
    /\ pc' = "save_dump"
    /\ event' = "none"
    /\ UNCHANGED <<tmp, saved, cont, args, acc, cursor, stall, browser, driver, outcome, crawls, outside>>

SaveOpen ==        \* open(temp_file, 'w'): the temp file exists and is empty
    /\ pc = "save_open"
    /\ tmp' = Partial
    /\ pc' = "save_dump"
    /\ event' = "none"
    /\ UNCHANGED <<ckpt, saved, cont, args, acc, cursor, stall, browser, driver, outcome, crawls, outside>>

SaveDump ==        \* json.dump and close: the temp file holds the whole snapshot
    /\ pc = "save_dump"
    /\ tmp' = Snapshot(posts, seen_ids, scrolls)
    /\ pc' = "save_replace"
    /\ event' = "none"
    /\ UNCHANGED <<ckpt, saved, cont, args, acc, cursor, stall, browser, driver, outcome, crawls, outside>>

SaveReplace ==     \* os.replace(temp_file, checkpoint_file)
    /\ pc = "save_replace"
    /\ ckpt' = Replaced(ckpt, tmp)
    /\ tmp' = Absent
    /\ saved' = SaveOf(posts, seen_ids, scrolls)
    /\ pc' = cont
    /\ cont' = "none"
    /\ event' = "none"
    /\ UNCHANGED <<args, acc, cursor, stall, browser, driver, outcome, crawls, outside>>

(***************************************************************************)
(* Lines 360-383: the stall logic and the advance of the feed, as the      *)
(* values it leaves.  n, new: the stall counter and the records accepted   *)
(* in the step; g: the height of the page differs from last_height;        *)
(* load_more: the "Load more" control exists; g1: the advance (the click,  *)
(* the scroll) changes the height of the page; fails: a driver call raises *)
(* an exception other than NoSuchElementException.                         *)
(***************************************************************************)
\* a stall counter that is reset after every page
StallAfterPageReset(n, new) == 0

StallAfterPage(n, new) == IF new = 0 THEN n + 1 ELSE 0

Advance(n, new, g, load_more, g1, fails) ==
    LET n1 == StallAfterPage(n, new)
    IN  IF new = 0 /\ n1 >= StallLimit
        THEN [to |-> "final", path |-> "stall", n |-> n1, grown |-> g]
        ELSE IF fails
        THEN [to |-> "handler_exc", path |-> "failed", n |-> n1, grown |-> g]
        ELSE IF load_more           \* lines 371-373: last_height stays as it is
        THEN [to |-> "loop", path |-> "none", n |-> n1, grown |-> (g # g1)]
        ELSE                        \* lines 376-383: new_height == last_height ?
             [to |-> "loop", path |-> "none", n |-> IF ~g THEN n1 + 1 ELSE n1,
              grown |-> g1]

\* what the stall logic and the advance can leave, over the browser's answers
Advances(n, new, g) ==
    {Advance(n, new, g, lm, g1, f) : lm \in BOOLEAN, g1 \in BOOLEAN, f \in BOOLEAN}

\* the step goes where the advance leads: back to the loop test, or out of the loop
Advanced(a) ==
    /\ pc' = a.to
    /\ new_tweets_this_scroll' = 0
    /\ IF a.to = "loop"
       THEN /\ no_new_content_count' = a.n
            /\ grown' = a.grown
            /\ UNCHANGED outcome
       ELSE /\ no_new_content_count' = 0
            /\ grown' = FALSE
            /\ outcome' = [outcome EXCEPT !.path = a.path, !.phase = "paging"]

(***************************************************************************)
(* Lines 263-383: one pagination step: the loop test, the bounded wait,    *)
(* the for loop, the cursor, the cadence, the stall logic, the advance.    *)
(* The wait returns a non-empty list of at most MaxPerPage containers; st  *)
(* is the state the for loop ends in.  When the save of line 357 runs      *)
(* stepwise, the step goes on at "stall" (StallAdvance) after it.          *)
(***************************************************************************)
LoopStart(p, seen) ==
    [posts |-> p, seen_ids |-> seen, new |-> 0, stopped |-> FALSE, swallowed |-> FALSE]

PageResults(tt, p, seen, results) ==
    ProcessPage({LoopStart(p, seen)}, MaxPerPage, tt, results)

\* a loop test that admits one step at the target
LoopTestAtTarget(s, n) == s <= n

\* line 263: "while scrolls < num_scrolls"
LoopTest(s, n) == s < n

\* a cursor that counts a step twice
ScrollTwice(s) == s + 2

\* line 353: "scrolls += 1"
NextScroll(s) == s + 1

\* a cadence that saves on the last step only
CheckpointDueAtTargetOnly(s, n) == s = n

CheckpointDue(s, n) == s % CheckpointEvery = 0 \/ s = n

PageStep(st, a, stepwise) ==
    /\ pc = "loop"
    /\ LoopTest(scrolls, num_scrolls)
    /\ ~st.stopped
    /\ posts' = st.posts
    /\ seen_ids' = st.seen_ids
    /\ event' = IF st.swallowed THEN "ki" ELSE "none"
    /\ scrolls' = NextScroll(scrolls)
    /\ IF CheckpointDue(NextScroll(scrolls), num_scrolls) /\ stepwise
       THEN /\ save_checkpoint(st.posts, st.seen_ids, NextScroll(scrolls), "stall", TRUE)
            /\ new_tweets_this_scroll' = st.new
            /\ UNCHANGED <<no_new_content_count, browser, outcome>>
       ELSE /\ IF CheckpointDue(NextScroll(scrolls), num_scrolls)
               THEN /\ ckpt' = Replaced(ckpt, Snapshot(st.posts, st.seen_ids, NextScroll(scrolls)))
                    /\ tmp' = Absent
                    /\ saved' = SaveOf(st.posts, st.seen_ids, NextScroll(scrolls))
               ELSE UNCHANGED files
            /\ Advanced(a)
            /\ UNCHANGED cont
    /\ UNCHANGED <<args, start_scroll, scrolls_bound, driver, crawls, outside>>

\* a KeyboardInterrupt leaves the for loop, and with it the step
PageInterrupted(st) ==
    /\ pc = "loop"
    /\ LoopTest(scrolls, num_scrolls)
    /\ st.stopped
    /\ posts' = st.posts
    /\ seen_ids' = st.seen_ids
    /\ event' = "ki"
    /\ pc' = "handler_ki"
    /\ outcome' = [outcome EXCEPT !.path = "interrupted", !.phase = "paging"]
    /\ LoopLocalsDead
    /\ UNCHANGED <<files, cont, args, cursor, driver, crawls, outside>>

\* the rest of a step whose save ran stepwise
StallAdvance(a) ==
    /\ pc = "stall"
    /\ Advanced(a)
    /\ event' = "none"
    /\ UNCHANGED <<files, cont, args, acc, cursor, driver, crawls, outside>>

\* the loop ends: the target is reached (line 263), or the wait times out
\* (r = "timeout", line 270) or raises another exception (r = "error")
WaitFailures == {"timeout", "error"}

LoopExit(r) ==
    /\ pc = "loop"
    /\ IF LoopTest(scrolls, num_scrolls)
       THEN /\ pc' = IF r = "timeout" THEN "final" ELSE "handler_exc"
            /\ outcome' = [outcome EXCEPT !.phase = "paging",
                               !.path = IF r = "timeout" THEN "timeout" ELSE "failed"]
       ELSE /\ pc' = "final"
            /\ outcome' = [outcome EXCEPT !.path = "target", !.phase = "paging"]
    /\ LoopLocalsDead
    /\ event' = "none"
    /\ UNCHANGED <<files, cont, args, acc, cursor, driver, crawls, outside>>

(***************************************************************************)
(* Lines 385-396: final save, sort, removal of the checkpoint, return.     *)
(***************************************************************************)
FinalSave(stepwise) ==
    /\ pc = "final"
    /\ save_checkpoint(posts, seen_ids, scrolls, "final_sort", stepwise)
    /\ event' = "none"
    /\ UNCHANGED <<args, acc, cursor, stall, browser, driver, outcome, crawls, outside>>

FinalSort ==
    /\ pc = "final_sort"
    /\ posts' = SortDesc(posts)
    /\ pc' = "final_remove"
    /\ event' = "none"
    /\ UNCHANGED <<files, cont, args, seen_ids, cursor, stall, browser, driver, outcome,
                   crawls, outside>>

\* a success tail that returns without removing the checkpoint
FinalReturnKeepingFile ==
    /\ pc = "final_remove"
    /\ outcome' = [outcome EXCEPT !.kind = "returned", !.posts = posts]
    /\ Leave
    /\ pc' = "idle"
    /\ event' = "none"
    /\ UNCHANGED <<files, cont, args, crawls, outside>>

FinalRemove ==
    /\ pc = "final_remove"
    /\ ckpt' = IF Exists(ckpt) THEN Absent ELSE ckpt
    /\ saved' = NoSave
    /\ outcome' = [outcome EXCEPT !.kind = "returned", !.posts = posts]
    /\ Leave
    /\ pc' = "idle"
    /\ event' = "none"
    /\ UNCHANGED <<tmp, cont, args, crawls, outside>>

(***************************************************************************)
(* KeyboardInterrupt delivered between two steps of the try block.         *)
(***************************************************************************)
Interruptible ==
    \/ pc \in {"loop", "stall", "final", "final_sort", "final_remove"}
    \/ pc \in {"save_open", "save_dump", "save_replace"} /\ cont \in {"stall", "final_sort"}

InPaging ==
    \/ pc \in {"loop", "stall"}
    \/ pc \in {"save_open", "save_dump", "save_replace"} /\ cont = "stall"

Interrupt ==
    /\ Interruptible
    /\ pc' = "handler_ki"
    /\ event' = "ki"
    /\ outcome' = [outcome EXCEPT !.path = "interrupted",
                       !.phase = IF InPaging THEN "paging" ELSE "final"]
    /\ cont' = "none"
    /\ LoopLocalsDead
    /\ UNCHANGED <<files, args, acc, cursor, driver, crawls, outside>>

(***************************************************************************)
(* Lines 398-413: the two handlers.  Both print, call                      *)
(* save_checkpoint(checkpoint_file, posts, seen_ids, scrolls) and return   *)
(* posts; reading the unbound local scrolls raises UnboundLocalError,      *)
(* which leaves the function after the finally block.                      *)
(***************************************************************************)
\* handlers that return the records without saving them
HandlerWithoutSave(stepwise) ==
    /\ pc \in {"handler_ki", "handler_exc"}
    /\ pc' = "handler_return"
    /\ event' = "none"
    /\ UNCHANGED <<files, cont, args, acc, cursor, stall, browser, driver, outcome, crawls, outside>>

Handler(stepwise) ==
    /\ pc \in {"handler_ki", "handler_exc"}
    /\ IF scrolls_bound
       THEN /\ save_checkpoint(posts, seen_ids, scrolls, "handler_return", stepwise)
            /\ UNCHANGED <<outcome, driver, acc, cursor, stall, browser>>
       ELSE /\ pc' = "idle"
            /\ outcome' = [outcome EXCEPT !.kind = "raised"]
            /\ Leave
            /\ UNCHANGED <<cont, files>>
    /\ event' = "none"
    /\ UNCHANGED <<args, crawls, outside>>

HandlerReturn ==
    /\ pc = "handler_return"
    /\ outcome' = [outcome EXCEPT !.kind = "returned", !.posts = posts]
    /\ Leave
    /\ pc' = "idle"
    /\ event' = "none"
    /\ UNCHANGED <<files, cont, args, crawls, outside>>

(***************************************************************************)
(* The process is killed (power loss, kill -9) at any point of a crawl:    *)
(* only the files survive.                                                 *)
(***************************************************************************)
Crash ==
    /\ pc # "idle"
    /\ pc' = "idle"
    /\ cont' = "none"
    /\ posts' = <<>>
    /\ seen_ids' = {}
    /\ start_scroll' = 0
    /\ scrolls' = 0
    /\ scrolls_bound' = FALSE
    /\ LoopLocalsDead
    /\ driver' = "none"
    /\ outcome' = [NoOutcome EXCEPT !.kind = "crashed"]
    /\ event' = "none"
    /\ UNCHANGED <<files, args, crawls, outside>>

(***************************************************************************)
(* A checkpoint file damaged between two crawls (a truncated copy, an      *)
(* edit): k = "partial": not JSON; "not_object": JSON, but no object;      *)
(* "bad_seen_ids": an object whose 'seen_ids' is a number.                 *)
(***************************************************************************)
Damages == {"partial", "not_object", "bad_seen_ids"}

Damaged(file, k) ==
    IF k = "bad_seen_ids"
    THEN [file EXCEPT !.kind = k, !.seen_ids = <<>>]
    ELSE [Absent EXCEPT !.kind = k]

CorruptCheckpoint(k) ==
    /\ pc = "idle"
    /\ ckpt.kind = "snapshot"
    /\ ckpt' = Damaged(ckpt, k)
    /\ UNCHANGED <<tmp, saved, pc, cont, args, acc, cursor, stall, browser, driver,
                   outcome, event, crawls, outside>>

(***************************************************************************)
(* Next: crawls one after the other, every save_checkpoint call one step.  *)
(***************************************************************************)
Next ==
    \/ /\ pc = "idle"
       /\ \E tt \in TweetTypes, n \in {MinTarget, MaxTarget} : StartCrawl(tt, n)
    \/ SetupFails
    \/ /\ pc = "nav"
       /\ \E r \in NavResults : Navigate(r)
    \/ /\ pc = "loop"
       /\ \E st \in PageResults(tweet_type, posts, seen_ids, ItemResultsSeen) :
             \E a \in Advances(no_new_content_count, st.new, grown) : PageStep(st, a, FALSE)
    \/ /\ pc = "loop"
       /\ \E st \in PageResults(tweet_type, posts, seen_ids, ItemResultsSeen) :
             PageInterrupted(st)
    \/ /\ pc = "loop"
       /\ \E r \in WaitFailures : LoopExit(r)
    \/ FinalSave(FALSE)
    \/ FinalSort
    \/ FinalRemove
    \/ Interrupt
    \/ Handler(FALSE)
    \/ HandlerReturn
    \/ Crash

Spec == Init /\ [][Next]_vars

(***************************************************************************)
(* NextSteps: crawls called with the smallest target, with every           *)
(* save_checkpoint call one step per file-system operation, and with the   *)
(* interrupts that arrive inside the helpers.                              *)
(***************************************************************************)
NextSteps ==
    \/ /\ pc = "idle"
       /\ \E tt \in TweetTypes : StartCrawl(tt, MinTarget)
    \/ SetupFails
    \/ /\ pc = "nav"
       /\ \E r \in NavResults : Navigate(r)
    \/ /\ pc = "loop"
       /\ \E st \in PageResults(tweet_type, posts, seen_ids, ItemResults) :
             \E a \in Advances(no_new_content_count, st.new, grown) : PageStep(st, a, TRUE)
    \/ /\ pc = "loop"
       /\ \E st \in PageResults(tweet_type, posts, seen_ids, ItemResults) :
             PageInterrupted(st)
    \/ /\ pc = "loop"
       /\ \E r \in WaitFailures : LoopExit(r)
    \/ /\ pc = "stall"
       /\ \E a \in Advances(no_new_content_count, new_tweets_this_scroll, grown) :
             StallAdvance(a)
    \/ SaveOpen
    \/ SaveDump
    \/ SaveReplace
    \/ FinalSave(TRUE)
    \/ FinalSort
    \/ FinalRemove
    \/ Interrupt
    \/ Handler(TRUE)
    \/ HandlerReturn
    \/ Crash

SpecSteps == Init /\ [][NextSteps]_vars

(***************************************************************************)
(* NextCorrupt: crawls called with the smallest target, between which the  *)
(* checkpoint file may be damaged.                                         *)
(***************************************************************************)
NextCorrupt ==
    \/ /\ pc = "idle"
       /\ \E tt \in TweetTypes : StartCrawl(tt, MinTarget)
    \/ /\ pc = "idle"
       /\ \E k \in Damages : CorruptCheckpoint(k)
    \/ SetupFails
    \/ /\ pc = "nav"
       /\ \E r \in NavResults : Navigate(r)
    \/ /\ pc = "loop"
       /\ \E st \in PageResults(tweet_type, posts, seen_ids, ItemResultsSeen) :
             \E a \in Advances(no_new_content_count, st.new, grown) : PageStep(st, a, FALSE)
    \/ /\ pc = "loop"
       /\ \E st \in PageResults(tweet_type, posts, seen_ids, ItemResultsSeen) :
             PageInterrupted(st)
    \/ /\ pc = "loop"
       /\ \E r \in WaitFailures : LoopExit(r)
    \/ FinalSave(FALSE)
    \/ FinalSort
    \/ FinalRemove
    \/ Interrupt
    \/ Handler(FALSE)
    \/ HandlerReturn
    \/ Crash

SpecCorrupt == Init /\ [][NextCorrupt]_vars

(***************************************************************************)
(* NextFeed: crawls with filter 'all' of a scripted feed, called for as    *)
(* many steps as the feed has pages: step k is shown page k, every lookup  *)
(* succeeds, nothing times out, raises or interrupts.                      *)
(***************************************************************************)
\* the for loop of line 274 over the containers page[i..], in DOM order
RECURSIVE ShowPage(_, _, _, _)
ShowPage(page, i, tt, st) ==
    IF i > Len(page) THEN st
    ELSE ShowPage(page, i + 1, tt, ProcessItem(page[i], "ok", tt, st))

Undisturbed(a) == a.to # "handler_exc"

NextFeed ==
    \/ /\ pc = "idle"
       /\ StartCrawl("all", Len(feed))
    \/ /\ pc = "nav"
       /\ Navigate("ok")
    \/ /\ pc = "loop"
       /\ scrolls < num_scrolls
       /\ LET st == ShowPage(feed[scrolls + 1], 1, tweet_type, LoopStart(posts, seen_ids))
          IN  \E a \in Advances(no_new_content_count, st.new, grown) :
                 Undisturbed(a) /\ PageStep(st, a, FALSE)
    \/ /\ pc = "loop"
       /\ scrolls >= num_scrolls
       /\ LoopExit("error")
    \/ FinalSave(FALSE)
    \/ FinalSort
    \/ FinalRemove

SpecFeed == InitFeed /\ [][NextFeed]_vars

(***************************************************************************)
(* NextResume: a crawl with filter 'all' of a scripted feed, called for as *)
(* many steps as the feed has pages, interrupted between two steps and     *)
(* called again with the same arguments.  driver.get (line 255) opens the  *)
(* feed at its first page in every crawl and each step advances it by one  *)
(* page ("Load more" is there), so that the step at cursor scrolls is      *)
(* shown page scrolls - start_scroll + 1.                                  *)
(***************************************************************************)
NextResume ==
    \/ /\ pc = "idle"
       /\ crawls = 0 \/ outcome.path = "interrupted"
       /\ StartCrawl("all", Len(feed))
    \/ /\ pc = "nav"
       /\ Navigate("ok")
    \/ /\ pc = "loop"
       /\ scrolls < num_scrolls
       /\ LET st == ShowPage(feed[scrolls - start_scroll + 1], 1, tweet_type,
                             LoopStart(posts, seen_ids))
          IN  \E g1 \in BOOLEAN :
                 PageStep(st, Advance(no_new_content_count, st.new, grown, TRUE, g1, FALSE),
                          FALSE)
    \/ /\ pc = "loop"
       /\ scrolls >= num_scrolls
       /\ LoopExit("error")
    \/ /\ pc = "loop"
       /\ crawls = 1
       /\ Interrupt
    \/ Handler(FALSE)
    \/ HandlerReturn
    \/ FinalSave(FALSE)
    \/ FinalSort
    \/ FinalRemove

SpecResume == InitFeed /\ [][NextResume]_vars

(***************************************************************************)
(* NextFair: crawls with filter 'all' of a scripted feed whose pages show   *)
(* one container each, called for as many steps as the feed has pages or   *)
(* for one less, that resume from the checkpoint an earlier crawl left;    *)
(* the navigation and the wait can fail, the user can interrupt.  The      *)
(* process is single-threaded and blocking: as long as every browser call  *)
(* returns or raises, the crawl takes its next step (WF).                  *)
(***************************************************************************)
OneItemFeeds == [1..(FeedPages + 1) -> [1..1 -> FeedItems]]

InitOneItemFeed == InitCrawl /\ feed \in OneItemFeeds /\ InitExport /\ InitNoCall

NextFair ==
    \/ /\ pc = "idle"
       /\ \E n \in {Len(feed) - 1, Len(feed)} : StartCrawl("all", n)
    \/ /\ pc = "nav"
       /\ \E r \in NavResults : Navigate(r)
    \/ /\ pc = "loop"
       /\ scrolls - start_scroll < Len(feed)       \* the feed has a page to show
       /\ \E st \in {ShowPage(feed[scrolls - start_scroll + 1], 1, tweet_type,
                               LoopStart(posts, seen_ids))} :
             \E a \in Advances(no_new_content_count, st.new, grown) : PageStep(st, a, FALSE)
    \/ /\ pc = "loop"
       /\ \E r \in WaitFailures : LoopExit(r)
    \/ FinalSave(FALSE)
    \/ FinalSort
    \/ FinalRemove
    \/ Interrupt
    \/ Handler(FALSE)
    \/ HandlerReturn

SpecFair == InitOneItemFeed /\ [][NextFair]_vars /\ WF_vars(NextFair)

(***************************************************************************)
(* NextFaults: one crawl of a scripted feed whose containers say what      *)
(* happens while they are processed (field during: a lookup of the         *)
(* permalink or of the content fails, the user interrupts, or nothing),    *)
(* called for as many steps as the feed has pages.                         *)
(***************************************************************************)
FaultResults == {"ok", "no_permalink", "no_content", "ki_early"}

During(c, o) ==
    [href |-> c.href, retweet_header |-> c.retweet_header, quote |-> c.quote,
     date |-> c.date, during |-> o]

\* container i of page p: an original post, a retweet or a quote, every one
\* with an id of its own
ItemAt(p, i) ==
    LET k == (p - 1) * MaxPerPage + i
        id == IdOrder[((k - 1) % Len(IdOrder)) + 1][1]
    IN  CASE k % 3 = 1 -> Original(id)
          [] k % 3 = 2 -> Retweet(id)
          [] OTHER -> Quote(id)

FaultyFeeds ==
    { [p \in 1..FeedPages |-> [i \in 1..MaxPerPage |-> During(ItemAt(p, i), o[p][i])]] :
        o \in [1..FeedPages -> [1..MaxPerPage -> FaultResults]] }

InitFaults == InitCrawl /\ feed \in FaultyFeeds /\ InitExport /\ InitNoCall

\* the for loop of line 274 over the containers page[i..], in DOM order
RECURSIVE ShowPageDuring(_, _, _, _)
ShowPageDuring(page, i, tt, st) ==
    IF i > Len(page) \/ st.stopped THEN st
    ELSE ShowPageDuring(page, i + 1, tt, ProcessItem(page[i], page[i].during, tt, st))

NextFaults ==
    \/ /\ pc = "idle"
       /\ crawls = 0
       /\ \E tt \in {"original", "all"} : StartCrawl(tt, Len(feed))
    \/ /\ pc = "nav"
       /\ Navigate("ok")
    \/ /\ pc = "loop"
       /\ scrolls < Len(feed)
       /\ \E st \in {ShowPageDuring(feed[scrolls + 1], 1, tweet_type, LoopStart(posts, seen_ids))} :
             \E a \in Advances(no_new_content_count, st.new, grown) :
                Undisturbed(a) /\ PageStep(st, a, FALSE)
    \/ /\ pc = "loop"
       /\ scrolls < Len(feed)
       /\ PageInterrupted(ShowPageDuring(feed[scrolls + 1], 1, tweet_type,
                                         LoopStart(posts, seen_ids)))
    \/ /\ pc = "loop"
       /\ scrolls >= num_scrolls
       /\ LoopExit("error")
    \/ FinalSave(FALSE)
    \/ FinalSort
    \/ FinalRemove
    \/ Handler(FALSE)
    \/ HandlerReturn

SpecFaults == InitFaults /\ [][NextFaults]_vars

(***************************************************************************)
(* export_to_csv, lines 420-525.                                           *)
(***************************************************************************)
\* lines 435-443: the base name, then "_1", "_2", ... until a name is unused
RECURSIVE NextUnused(_, _)
NextUnused(d, counter) ==
    IF d[IncrementName(counter)].exists THEN NextUnused(d, counter + 1)
    ELSE IncrementName(counter)

\* an increment that tries "_1" only
FirstSuffixOnly(d) == IF d[BaseName].exists THEN IncrementName(1) ELSE BaseName

increment_filename(d) == IF d[BaseName].exists THEN NextUnused(d, 1) ELSE BaseName

\* lines 448-449: input() is called
Asked(mode, d) == mode = "ask" /\ d[BaseName].exists

\* an 'ask' mode that does not look at the answer
AskIgnoringAnswer(d, now, response) == BaseName

ask_filename(d, now, response) ==
    IF d[BaseName].exists /\ response # "y" THEN TimestampName(now) ELSE BaseName

\* lines 431-487: the file name the call writes to
Filename(mode, d, now, response) ==
    CASE mode = "timestamp" -> TimestampName(now)
      [] mode = "increment" -> increment_filename(d)
      [] mode = "ask" -> ask_filename(d, now, response)
      [] mode = "merge" -> BaseName
      [] OTHER -> TimestampName(now)

\* lines 461-467: csv.DictReader yields every cell as the text that is in the file
DictReader(file) == IF file.exists THEN file.rows ELSE <<>>

\* a merge that appends every new record
AllOf(tweets, existing_ids) == tweets

\* lines 473-476: the records whose id is not among the ids read from the file
RECURSIVE NotInFile(_, _)
NotInFile(tweets, existing_ids) ==
    IF tweets = <<>> THEN <<>>
    ELSE (IF Head(tweets).tweet_id \notin existing_ids THEN <<Head(tweets)>> ELSE <<>>)
         \o NotInFile(Tail(tweets), existing_ids)

\* lines 455-484
Merged(d, tweets) ==
    LET existing_tweets == DictReader(d[BaseName])
        existing_ids == {existing_tweets[i].tweet_id : i \in 1..Len(existing_tweets)}
    IN  SortDesc(existing_tweets \o NotInFile(tweets, existing_ids))

\* lines 505-522: the row written for t, a scraped dict or a row read back
Row(t) ==
    [tweet_id |-> t.tweet_id, created_at |-> t.created_at,
     urls |-> json_dumps(t.urls), hashtags |-> json_dumps(t.hashtags),
     mentions |-> json_dumps(t.mentions), media |-> json_dumps(t.media)]

Rows(tweets) == [i \in 1..Len(tweets) |-> Row(tweets[i])]

export_to_csv(tweets, mode, response) ==
    /\ exports < MaxExports
    /\ exports' = exports + 1
    /\ IF tweets = <<>>                       \* lines 423-425: return None
       THEN /\ disk' = disk
            /\ last' = [NoExport EXCEPT !.mode = mode]
       ELSE LET filename == Filename(mode, disk, clock, response)
                written == IF mode = "merge" THEN Merged(disk, tweets) ELSE tweets
            IN  /\ disk' = [disk EXCEPT ![filename] = Csv(Rows(written))]
                /\ last' = [mode |-> mode, tweets |-> tweets,
                            asked |-> Asked(mode, disk),
                            response |-> IF Asked(mode, disk) THEN response ELSE "none",
                            path |-> filename]
    /\ UNCHANGED <<files, pc, cont, args, acc, cursor, stall, browser, driver, outcome,
                   event, crawls, feed, clock, calls>>

\* a second passes
Tick ==
    /\ clock < MaxClock
    /\ clock' = clock + 1
    /\ UNCHANGED <<files, pc, cont, args, acc, cursor, stall, browser, driver, outcome,
                   event, crawls, feed, disk, exports, last, calls>>

NextExport ==
    \/ \E tweets \in ExportInputs, mode \in ExportModes, response \in {"y", "n"} :
          export_to_csv(tweets, mode, response)
    \/ Tick

SpecExport == Init /\ [][NextExport]_vars

(***************************************************************************)
(* NextMerge: merge exports, of record lists one of which repeats an id,   *)
(* in which the read of the existing file can raise after some rows (a     *)
(* csv.Error, a UnicodeDecodeError: caught at line 468) and the write can  *)
(* raise after some rows (an OSError: it leaves the function, the with     *)
(* statement closing the file).                                            *)
(***************************************************************************)
RepeatedId == <<Tweet("4", 2, <<"u4">>, <<>>), Tweet("4", 2, <<"u4">>, <<>>)>>

MergeInputs == (ExportInputs \ {<<>>}) \cup {RepeatedId}

\* lines 455-525 in mode 'merge': read: the rows the reader yields before the
\* read ends or raises; written: the rows written before the write ends or raises
MergeExport(tweets, read, written) ==
    /\ exports < MaxExports
    /\ exports' = exports + 1
    /\ tweets # <<>>
    /\ read \in 0..Len(DictReader(disk[BaseName]))
    /\ LET existing_tweets == SubSeq(DictReader(disk[BaseName]), 1, read)
           existing_ids == {existing_tweets[i].tweet_id : i \in 1..Len(existing_tweets)}
           sorted == SortDesc(existing_tweets \o NotInFile(tweets, existing_ids))
       IN  /\ written \in 0..Len(sorted)
           /\ disk' = [disk EXCEPT ![BaseName] = Csv(Rows(SubSeq(sorted, 1, written)))]
    /\ last' = [mode |-> "merge", tweets |-> tweets, asked |-> FALSE, response |-> "none",
                path |-> BaseName]
    /\ UNCHANGED <<files, pc, cont, args, acc, cursor, stall, browser, driver, outcome,
                   event, crawls, feed, clock, calls>>

NextMerge ==
    \/ \E tweets \in MergeInputs : export_to_csv(tweets, "merge", "n")
    \/ \E tweets \in MergeInputs, read \in 0..MaxRows, written \in 0..MaxRows :
          /\ read < Len(DictReader(disk[BaseName])) \/ written < Len(Merged(disk, tweets))
          /\ MergeExport(tweets, read, written)

SpecMerge == Init /\ [][NextMerge]_vars

(***************************************************************************)
(* The helper functions.  Each is called on an input drawn at the start;   *)
(* hash_username and extract_tweet_id are wrapped by functools.lru_cache,  *)
(* whose cache is a list of <<argument, result>> pairs, the most recently  *)
(* used last, with a bounded size.                                         *)
(***************************************************************************)
\* everything but the helper calls
nocalls == <<files, pc, cont, args, acc, cursor, stall, browser, driver, outcome, event,
             crawls, feed, disk, clock, exports, last>>

SeqsUpTo(S, n) == UNION {[1..k -> S] : k \in 0..n}

CacheHit(c, k) == \E i \in 1..Len(c) : c[i][1] = k

CacheGet(c, k) == c[CHOOSE i \in 1..Len(c) : c[i][1] = k][2]

RECURSIVE CacheWithout(_, _)
CacheWithout(c, k) ==
    IF c = <<>> THEN <<>>
    ELSE (IF Head(c)[1] = k THEN <<>> ELSE <<Head(c)>>) \o CacheWithout(Tail(c), k)

\* the entry of k becomes the most recently used; the least recently used entry
\* is dropped when the cache is over its size
CachePut(c, k, v) ==
    LET c1 == Append(CacheWithout(c, k), <<k, v>>)
    IN  IF Len(c1) > CacheSize THEN Tail(c1) ELSE c1

\* a call of an lru_cache-wrapped function on k, where the function computes v
CallCached(k, v) ==
    LET r == IF CacheHit(cache, k) THEN CacheGet(cache, k) ELSE v
    IN  /\ cache' = CachePut(cache, k, r)
        /\ returned' = IF k = input THEN Append(returned, r) ELSE returned
        /\ UNCHANGED <<input, nocalls>>

\* a new run of the program starts with empty caches
NewRun ==
    /\ cache # <<>>
    /\ cache' = <<>>
    /\ UNCHANGED <<input, returned, nocalls>>

(***************************************************************************)
(* extract_tweet_id, lines 56-63, called on permalink texts.               *)
(***************************************************************************)
UrlChars == {"/", "status", "1", "2"}

ExampleUrl ==
    <<"https:", "/", "/", "nitter.net", "/", "user", "/", "status", "/",
      "1", "2", "3", "4", "5", "6", "7", "8", "9", "0">>

TwoStatusUrl == <<"/", "status", "/", "1", "/", "status", "/", "2", "#m">>

OtherUrl == <<"/", "user", "/", "status", "/", "7">>

Urls == SeqsUpTo(UrlChars, MaxUrl) \cup {ExampleUrl, TwoStatusUrl, OtherUrl}

InitTweetId ==
    /\ InitCrawl /\ feed = <<>> /\ InitExport
    /\ input \in Urls
    /\ cache = <<>>
    /\ returned = <<>>

CallExtractTweetId(url) ==
    /\ url = input => Len(returned) < MaxCalls
    /\ CallCached(url, extract_tweet_id(url))

NextTweetId ==
    \/ CallExtractTweetId(input)
    \/ CallExtractTweetId(OtherUrl)

SpecTweetId == InitTweetId /\ [][NextTweetId]_vars

(***************************************************************************)
(* parse_engagement_number, lines 142-154, and extract_engagement_stats,   *)
(* lines 157-182.  float is IEEE 754 binary64: a positive float is         *)
(* [m, e], standing for m * 2^e, where the natural number m has Precision  *)
(* significant bits.  m is written in limbs of LimbBits bits, the most     *)
(* significant first, so that every step stays inside 32-bit arithmetic.   *)
(***************************************************************************)
Front(b) == SubSeq(b, 1, Len(b) - 1)

Base == 2 ^ LimbBits

\* a * c + add for limbs a and naturals c, add below 2^15
MulAdd(a, c, add) ==
    LET n == Len(a)
        carry[i \in 1..(n + 1)] ==
            IF i = n + 1 THEN add ELSE (a[i] * c + carry[i + 1]) \div Base
    IN  <<carry[1]>> \o [i \in 1..n |-> (a[i] * c + carry[i + 1]) % Base]

\* quotient and remainder of limbs a by a natural d below 2^15
DivMod(a, d) ==
    LET n == Len(a)
        rem[i \in 0..n] == IF i = 0 THEN 0 ELSE (rem[i - 1] * Base + a[i]) % d
    IN  [q |-> [i \in 1..n |-> (rem[i - 1] * Base + a[i]) \div d], r |-> rem[n]]

\* bit j of a (bit 0 is the least significant)
Bit(a, j) ==
    IF j >= LimbBits * Len(a) THEN 0
    ELSE (a[Len(a) - (j \div LimbBits)] \div (2 ^ (j % LimbBits))) % 2

\* the number of bits of a: those of its first limb that is not 0, and all the
\* bits of the limbs after it
BitLength(a) ==
    LET nonzero == {i \in 1..Len(a) : a[i] # 0}
        first == CHOOSE i \in nonzero : \A j \in nonzero : i <= j
    IN  IF nonzero = {} THEN 0
        ELSE (CHOOSE k \in 1..LimbBits : 2 ^ (k - 1) <= a[first] /\ a[first] < 2 ^ k)
             + LimbBits * (Len(a) - first)

\* a \div 2^t
ShiftRight(a, t) ==
    LET s == t % LimbBits
        b == SubSeq(a, 1, Len(a) - (t \div LimbBits))
    IN  [i \in 1..Len(b) |->
            (b[i] \div (2 ^ s))
            + (IF i > 1 THEN (b[i - 1] % (2 ^ s)) * (2 ^ (LimbBits - s)) ELSE 0)]

\* a * 2^t
ShiftLeft(a, t) == MulAdd(a, 2 ^ (t % LimbBits), 0) \o [i \in 1..(t \div LimbBits) |-> 0]

\* the natural number limbs a stand for
NatOf(a) ==
    LET v[i \in 0..Len(a)] == IF i = 0 THEN 0 ELSE v[i - 1] * Base + a[i]
    IN  v[Len(a)]

\* round to nearest, ties to even: the float nearest to (a + more) * 2^ex, where
\* more says that the exact value lies above a * 2^ex, by less than 2^ex
Round(a, ex, more) ==
    LET t == BitLength(a) - Precision
        kept == ShiftRight(a, t)
        half == Bit(a, t - 1) = 1
        below == more \/ \E j \in 0..(t - 2) : Bit(a, j) = 1
        up == half /\ (below \/ Bit(kept, 0) = 1)
    IN  IF t <= 0 THEN [m |-> a, e |-> ex]
        ELSE [m |-> IF up THEN MulAdd(kept, 1, 1) ELSE kept, e |-> ex + t]

\* the exponent of the leading bit of n / d
Log2(n, d) ==
    CHOOSE l \in -14..16 : IF l >= 0 THEN d * (2 ^ l) <= n /\ n < d * (2 ^ (l + 1))
                           ELSE n * (2 ^ (-l)) >= d /\ n * (2 ^ (-l - 1)) < d

\* float("n / d") for 0 < n < 10^5 and d a power of ten up to 10^4: the float
\* nearest to the decimal; the quotient has Precision + 1 bits, the remainder
\* says whether the decimal lies above it
FloatOfRatio(n, d) ==
    LET k == Precision - Log2(n, d)
        x == DivMod(ShiftLeft(<<n \div Base, n % Base>>, k), d)
    IN  Round(x.q, -k, x.r # 0)

\* x * c for a float x and c = 1000 or 1000000 (exact as floats): one rounding
FloatTimes(x, c) ==
    Round(IF c <= 1000 THEN MulAdd(x.m, c, 0)
          ELSE MulAdd(MulAdd(x.m, 1000, 0), c \div 1000, 0), x.e, FALSE)

\* int(x): truncation
IntOfFloat(x) ==
    IF x.e >= 0 THEN NatOf(x.m) * (2 ^ x.e) ELSE NatOf(ShiftRight(x.m, -x.e))

Lower(ch) == IF ch = "K" THEN "k" ELSE IF ch = "M" THEN "m" ELSE ch

lower(text) == [i \in 1..Len(text) |-> Lower(text[i])]

RECURSIVE lstrip(_)
lstrip(text) == IF text # <<>> /\ Head(text) = " " THEN lstrip(Tail(text)) ELSE text

RECURSIVE rstrip(_)
rstrip(text) == IF text # <<>> /\ text[Len(text)] = " " THEN rstrip(Front(text)) ELSE text

strip(text) == rstrip(lstrip(text))

\* text.replace(ch, "")
RECURSIVE Without(_, _)
Without(text, ch) ==
    IF text = <<>> THEN <<>>
    ELSE (IF Head(text) = ch THEN <<>> ELSE <<Head(text)>>) \o Without(Tail(text), ch)

DigitChars == <<"0", "1", "2", "3", "4", "5", "6", "7", "8", "9">>

DigitValue(ch) == CHOOSE v \in 0..9 : DigitChars[v + 1] = ch

\* int of a string of digits
RECURSIVE IntOfDigits(_)
IntOfDigits(ds) ==
    IF ds = <<>> THEN 0 ELSE 10 * IntOfDigits(Front(ds)) + DigitValue(ds[Len(ds)])

\* the literal float() reads: blanks around, an optional sign, then digits with at
\* most one point and at least one digit; anything else raises ValueError (the
\* texts called with have no exponent, underscore, "inf" or "nan")
FloatLiteral(text) ==
    LET s == strip(text)
        signed == s # <<>> /\ Head(s) \in {"-", "+"}
        body == IF signed THEN Tail(s) ELSE s
        points == {i \in 1..Len(body) : body[i] = "."}
        ds == Select(body, Digits)
    IN  [ok |-> /\ \A i \in 1..Len(body) : body[i] \in Digits \cup {"."}
                /\ Cardinality(points) <= 1
                /\ ds # <<>>,
         negative |-> signed /\ Head(s) = "-",
         n |-> IntOfDigits(ds),
         d |-> 10 ^ (IF points = {} THEN 0 ELSE Len(body) - (CHOOSE i \in points : TRUE))]

\* int(float(text) * c), 0 when float raises
IntOfProduct(text, c) ==
    LET lit == FloatLiteral(text)
    IN  IF ~lit.ok \/ lit.n = 0 THEN 0
        ELSE LET v == IntOfFloat(FloatTimes(FloatOfRatio(lit.n, lit.d), c))
             IN  IF lit.negative THEN -v ELSE v

parse_engagement_number(text) ==
    IF text = <<>> THEN 0                                          \* lines 143-144
    ELSE LET t == lower(strip(text))                               \* line 145
         IN  IF "k" \in Range(t) THEN IntOfProduct(Without(t, "k"), 1000)
             ELSE IF "m" \in Range(t) THEN IntOfProduct(Without(t, "m"), 1000000)
             ELSE IntOfDigits(Select(t, Digits))   \* int("") raises: 0 (line 153)

Icons == {"comment", "retweet", "heart"}
NoIcon == <<"no icon">>

\* the counters of a container: container[i] is the text next to icon i (NoIcon:
\* the icon is not there); fails names the lookup that raises, and the bare
\* except keeps what was set before it
extract_engagement_stats(container, fails) ==
    LET Count(i) == parse_engagement_number(container[i])
        comment == fails \notin {"lookup", "comment"} /\ container["comment"] # NoIcon
        retweet == fails \notin {"lookup", "comment", "retweet"}
                   /\ container["retweet"] # NoIcon
        heart == fails = "none" /\ container["heart"] # NoIcon
    IN  [retweet_count |-> IF retweet THEN Count("retweet") ELSE 0,
         like_count |-> IF heart THEN Count("heart") ELSE 0,
         comment_count |-> IF comment THEN Count("comment") ELSE 0]

EngChars == {"1", "2", "3", "4", ".", "K", "M", "-"}

EngExamples ==
    { <<"1", ".", "2", "K">>, <<"3", "M">>, <<>>, <<"4", "2">>,
      <<"3", "2", ".", "3", "K">>, <<"-", "1", ".", "2", "K">>,
      <<" ", "1", ".", "2", "k", " ">>, <<"1", ",", "2", "3", "4">>,
      <<"1", "2", " ", "l", "i", "k", "e", "s">>, <<"1", "2", "3", "4", "5">> }

\* counts of 2^31 and more are not written
EngTexts ==
    {t \in SeqsUpTo(EngChars, MaxText) :
        "M" \in Range(t) => Len(Select(t, Digits)) <= 3} \cup EngExamples

InitEngagement ==
    /\ InitCrawl /\ feed = <<>> /\ InitExport
    /\ input \in EngTexts
    /\ cache = <<>>
    /\ returned = <<>>

CallParseEngagementNumber ==
    /\ returned = <<>>
    /\ returned' = <<parse_engagement_number(input)>>
    /\ UNCHANGED <<input, cache, nocalls>>

\* the stats of a container whose counters, where it has them, read input
CallExtractEngagementStats(found, fails) ==
    /\ Len(returned) = 1
    /\ returned' = Append(returned,
                     extract_engagement_stats(
                        [i \in Icons |-> IF i \in found THEN input ELSE NoIcon], fails))
    /\ UNCHANGED <<input, cache, nocalls>>

NextEngagement ==
    \/ CallParseEngagementNumber
    \/ \E found \in SUBSET Icons, fails \in Icons \cup {"none", "lookup"} :
          CallExtractEngagementStats(found, fails)

SpecEngagement == InitEngagement /\ [][NextEngagement]_vars

(***************************************************************************)
(* hash_username, lines 24-27.  hashlib.sha256 is a library function: what *)
(* the program uses of it is that hexdigest() is a fixed function of the   *)
(* bytes with HexDigestLen hexadecimal digits, and the model takes one     *)
(* such function.                                                          *)
(***************************************************************************)
HexChars == <<"0", "1", "2", "3", "4", "5", "6", "7", "8", "9", "a", "b", "c", "d", "e", "f">>

\* str.encode(): the UTF-8 bytes of a text
Utf8(ch) ==
    CASE ch = "a" -> <<97>>
      [] ch = "b" -> <<98>>
      [] ch = "_" -> <<95>>
      [] ch = "e-acute" -> <<195, 169>>
      [] ch = "testuser" -> <<116, 101, 115, 116, 117, 115, 101, 114>>

RECURSIVE encode(_)
encode(text) == IF text = <<>> THEN <<>> ELSE Utf8(Head(text)) \o encode(Tail(text))

sha256_hexdigest(bytes) ==
    LET sum[j \in 0..Len(bytes)] == IF j = 0 THEN Len(bytes)
                                   ELSE ((31 * sum[j - 1]) % 65521) + bytes[j]
    IN  [i \in 1..HexDigestLen |-> HexChars[((sum[Len(bytes)] * i + i * i) % 16) + 1]]

\* text[:n]
Slice(text, n) == SubSeq(text, 1, IF Len(text) < n THEN Len(text) ELSE n)

\* the first half of the token only
hash_username_short(username) == Slice(sha256_hexdigest(encode(username)), TokenLen \div 2)

hash_username(username) == Slice(sha256_hexdigest(encode(username)), TokenLen)

HandleChars == {"a", "b", "_", "e-acute"}

TestUser == <<"testuser">>

OtherHandle == <<"b", "a", "b", "a", "_">>

Handles == SeqsUpTo(HandleChars, MaxHandle) \cup {TestUser, OtherHandle}

InitHash ==
    /\ InitCrawl /\ feed = <<>> /\ InitExport
    /\ input \in Handles
    /\ cache = <<>>
    /\ returned = <<>>

CallHashUsername(username) ==
    /\ username = input => Len(returned) < MaxCalls
    /\ CallCached(username, hash_username(username))

NextHash ==
    \/ CallHashUsername(input)
    \/ CallHashUsername(OtherHandle)
    \/ NewRun

SpecHash == InitHash /\ [][NextHash]_vars

(***************************************************************************)
(* SentimentAnalyzer.classify_sentiment, src/src/analysis/                 *)
(* sentiment_analyzer.py lines 58-65.  A compound score is a float; the    *)
(* model takes the scores with four decimals (what VADER returns), as a    *)
(* number of ten-thousandths, and the float that is not a number.          *)
(***************************************************************************)
Score(v) == [nan |-> FALSE, v |-> v]
NaN == [nan |-> TRUE, v |-> 0]

\* float comparisons: every comparison with a NaN is false
Geq(x, v) == ~x.nan /\ x.v >= v
Leq(x, v) == ~x.nan /\ x.v <= v

\* the thresholds taken as strict
classify_sentiment_strict(compound_score) ==
    IF ~compound_score.nan /\ compound_score.v > Threshold THEN "positive"
    ELSE IF ~compound_score.nan /\ compound_score.v < -Threshold THEN "negative"
    ELSE "neutral"

classify_sentiment(compound_score) ==
    IF Geq(compound_score, Threshold) THEN "positive"
    ELSE IF Leq(compound_score, -Threshold) THEN "negative"
    ELSE "neutral"

Scores == {Score(v) : v \in (-MaxScore)..MaxScore} \cup {NaN}

InitSentiment ==
    /\ InitCrawl /\ feed = <<>> /\ InitExport
    /\ input \in Scores
    /\ cache = <<>>
    /\ returned = <<>>

CallClassifySentiment ==
    /\ returned = <<>>
    /\ returned' = <<classify_sentiment(input)>>
    /\ UNCHANGED <<input, cache, nocalls>>

NextSentiment == CallClassifySentiment

SpecSentiment == InitSentiment /\ [][NextSentiment]_vars

(***************************************************************************)
(* clean_text, src/src/analysis/text_processor.py lines 113-184, and the   *)
(* cleaning functions it applies, lines 21-107.  A text is the sequence of *)
(* its characters; a run of ASCII letters that is never split is written   *)
(* as one element, and "://" stands for its three characters.              *)
(***************************************************************************)
Whitespace == {" ", "\n", "\r"}

Lowercase == {"a", "e", "http", "https", "www", "rt", "check", "this", "out", "user",
              "example", "com"}

Uppercase == {"A", "RT", "Check"}

AsciiLetters == Lowercase \cup Uppercase

\* \w: letters (the accented ones too), digits and the underscore
Word == AsciiLetters \cup Digits \cup {"_", "e-acute"}

\* the characters of a text, "://" spelled out
RECURSIVE Chars(_)
Chars(text) ==
    IF text = <<>> THEN <<>>
    ELSE (IF Head(text) = "://" THEN <<":", "/", "/">> ELSE <<Head(text)>>)
         \o Chars(Tail(text))

\* the end of the longest run of characters in S (not in S, when inside is
\* FALSE) that starts at position i: the first position after it
RECURSIVE RunEnd(_, _, _, _)
RunEnd(t, i, S, inside) ==
    IF i > Len(t) \/ ((t[i] \in S) # inside) THEN i ELSE RunEnd(t, i + 1, S, inside)

\* r'https?://\S+|www\.\S+' matches at position i
UrlAt(t, i) ==
    \/ /\ t[i] \in {"http", "https"}
       /\ i + 4 <= Len(t)
       /\ SubSeq(t, i + 1, i + 3) = <<":", "/", "/">>
       /\ t[i + 4] \notin Whitespace
    \/ /\ t[i] = "www"
       /\ i + 2 <= Len(t)
       /\ t[i + 1] = "."
       /\ t[i + 2] \notin Whitespace

RECURSIVE RemoveUrlsFrom(_, _)
RemoveUrlsFrom(t, i) ==
    IF i > Len(t) THEN <<>>
    ELSE IF UrlAt(t, i) THEN RemoveUrlsFrom(t, RunEnd(t, i, Whitespace, FALSE))
    ELSE <<t[i]>> \o RemoveUrlsFrom(t, i + 1)

remove_urls(text) == RemoveUrlsFrom(text, 1)

\* r'@\w+' (sign "@") and r'#(\w+)' (sign "#") match at position i
SignAt(t, i, sign) == t[i] = sign /\ i + 1 <= Len(t) /\ t[i + 1] \in Word

RECURSIVE RemoveMentionsFrom(_, _)
RemoveMentionsFrom(t, i) ==
    IF i > Len(t) THEN <<>>
    ELSE IF SignAt(t, i, "@") THEN RemoveMentionsFrom(t, RunEnd(t, i + 1, Word, TRUE))
    ELSE <<t[i]>> \o RemoveMentionsFrom(t, i + 1)

remove_mentions(text) == RemoveMentionsFrom(text, 1)

\* each match is replaced by its group: the word without the "#"
RECURSIVE RemoveHashSymbolFrom(_, _)
RemoveHashSymbolFrom(t, i) ==
    IF i > Len(t) THEN <<>>
    ELSE IF SignAt(t, i, "#")
         THEN LET j == RunEnd(t, i + 1, Word, TRUE)
              IN  SubSeq(t, i + 1, j - 1) \o RemoveHashSymbolFrom(t, j)
    ELSE <<t[i]>> \o RemoveHashSymbolFrom(t, i + 1)

remove_hashtag_symbol(text) == RemoveHashSymbolFrom(text, 1)

RECURSIVE RemoveHashtagsFrom(_, _)
RemoveHashtagsFrom(t, i) ==
    IF i > Len(t) THEN <<>>
    ELSE IF SignAt(t, i, "#") THEN RemoveHashtagsFrom(t, RunEnd(t, i + 1, Word, TRUE))
    ELSE <<t[i]>> \o RemoveHashtagsFrom(t, i + 1)

remove_hashtags_completely(text) == RemoveHashtagsFrom(text, 1)

remove_emojis(text) == SelectSeq(text, LAMBDA ch : ch # "emoji")

\* r'[^a-zA-Z0-9\s.,!?\'"-]' is removed
KeptChars == AsciiLetters \cup Digits \cup Whitespace \cup {".", ",", "!", "?", "'", "\"", "-"}

remove_special_characters(text) == SelectSeq(text, LAMBDA ch : ch \in KeptChars)

\* r'\s+' becomes one blank, then strip()
RECURSIVE CollapseFrom(_, _)
CollapseFrom(t, i) ==
    IF i > Len(t) THEN <<>>
    ELSE IF t[i] \in Whitespace
         THEN <<" ">> \o CollapseFrom(t, RunEnd(t, i, Whitespace, TRUE))
    ELSE <<t[i]>> \o CollapseFrom(t, i + 1)

remove_extra_whitespace(text) == strip(CollapseFrom(text, 1))

remove_newlines(text) == [i \in 1..Len(text) |-> IF text[i] \in {"\n", "\r"} THEN " " ELSE text[i]]

\* unicodedata.normalize('NFKD', text): the fullwidth "@" becomes "@", an accented
\* letter becomes the letter and a combining accent
RECURSIVE normalize_unicode(_)
normalize_unicode(text) ==
    IF text = <<>> THEN <<>>
    ELSE (CASE Head(text) = "fullwidth-@" -> <<"@">>
            [] Head(text) = "e-acute" -> <<"e", "combining-acute">>
            [] OTHER -> <<Head(text)>>) \o normalize_unicode(Tail(text))

to_lowercase(text) ==
    [i \in 1..Len(text) |-> CASE text[i] = "A" -> "a"
                              [] text[i] = "RT" -> "rt"
                              [] text[i] = "Check" -> "check"
                              [] OTHER -> text[i]]

\* r'^RT\s*:?\s*' with re.IGNORECASE
remove_rt_prefix(text) ==
    IF text = <<>> \/ Head(text) \notin {"RT", "rt"} THEN text
    ELSE LET j == RunEnd(text, 2, Whitespace, TRUE)
             k == IF j <= Len(text) /\ text[j] = ":" THEN j + 1 ELSE j
         IN  SubSeq(text, RunEnd(text, k, Whitespace, TRUE), Len(text))

remove_numbers(text) == SelectSeq(text, LAMBDA ch : ch \notin Digits)

\* lines 129-139
Defaults ==
    [remove_urls |-> TRUE, remove_mentions |-> TRUE, remove_hashtags |-> "symbol",
     remove_emojis |-> TRUE, remove_special_chars |-> TRUE, lowercase |-> TRUE,
     remove_numbers |-> FALSE, normalize_unicode |-> TRUE, remove_rt_prefix |-> TRUE]

\* config=None
NoConfig == <<>>

\* {**defaults, **config}
MergedConfig(defaults, config) ==
    [k \in DOMAIN defaults \cup DOMAIN config |->
        IF k \in DOMAIN config THEN config[k] ELSE defaults[k]]

\* the cleaning steps in order, lines 147-184
Cleaned(text, config) ==
    LET t1 == remove_newlines(text)
        t2 == IF config.remove_rt_prefix THEN remove_rt_prefix(t1) ELSE t1
        t3 == IF config.remove_urls THEN remove_urls(t2) ELSE t2
        t4 == IF config.remove_mentions THEN remove_mentions(t3) ELSE t3
        t5 == IF config.remove_hashtags = "symbol" THEN remove_hashtag_symbol(t4)
              ELSE IF config.remove_hashtags = "complete"
                   THEN remove_hashtags_completely(t4)
              ELSE t4
        t6 == IF config.remove_emojis THEN remove_emojis(t5) ELSE t5
        t7 == IF config.normalize_unicode THEN normalize_unicode(t6) ELSE t6
        t8 == IF config.remove_special_chars THEN remove_special_characters(t7) ELSE t7
        t9 == IF config.remove_numbers THEN remove_numbers(t8) ELSE t8
        t10 == IF config.lowercase THEN to_lowercase(t9) ELSE t9
    IN  remove_extra_whitespace(t10)

\* the special characters are kept
clean_text_keeping_specials(text, config) ==
    IF text = <<>> THEN <<>>
    ELSE Cleaned(text, [MergedConfig(Defaults, config) EXCEPT !.remove_special_chars = FALSE])

clean_text(text, config) ==
    IF text = <<>> THEN <<>>                                   \* lines 144-145
    ELSE Cleaned(text, MergedConfig(Defaults, config))

TextChars == {"@", "#", "a", " ", "https", "://"}

\* the text of tests/test_analysis.py: "Check this out @user https://example.com"
ExampleText ==
    <<"Check", " ", "this", " ", "out", " ", "@", "user", " ",
      "https", "://", "example", ".", "com">>

TextExamples ==
    { ExampleText,
      <<"RT", " ", ":", " ", "@", "user", " ", "a", "\n", "www", ".", "a", "emoji">>,
      <<"fullwidth-@", "user", " ", "e-acute", "_", "1", " ", "http", "://", "a">>,
      <<"A", "\r", "@", "@", "a", " ", "https", ":", "/", "/", " ", "@", "#", "a">> }

Texts == SeqsUpTo(TextChars, MaxChars) \cup TextExamples

InitCleanText ==
    /\ InitCrawl /\ feed = <<>> /\ InitExport
    /\ input \in Texts
    /\ cache = <<>>
    /\ returned = <<>>

CallCleanText ==
    /\ returned = <<>>
    /\ returned' = <<clean_text(Chars(input), NoConfig)>>
    /\ UNCHANGED <<input, cache, nocalls>>

NextCleanText == CallCleanText

SpecCleanText == InitCleanText /\ [][NextCleanText]_vars

(***************************************************************************)
(* extract_urls (lines 66-78), extract_mentions (lines 89-101) and         *)
(* extract_media (lines 104-121).  The elements are what find_elements     *)
(* returns; fails says where a driver call raises: nowhere, at the         *)
(* find_elements call (for extract_media: the first or the second one), or *)
(* at the element one of whose attributes is read when the exception comes *)
(* (a stale reference).  Each body is wrapped in try / bare except: pass   *)
(* and returns its list.                                                   *)
(***************************************************************************)
NoAttribute == <<"None">>

Nowhere == [at |-> "none", i |-> 0]
AtFind == [at |-> "find", i |-> 0]
AtVideos == [at |-> "videos", i |-> 0]
AtElement(k) == [at |-> "element", i |-> k]

\* the elements read before the exception comes
ReadBefore(elements, fails) ==
    CASE fails = Nowhere -> elements
      [] fails = AtFind -> <<>>
      [] OTHER -> SubSeq(elements, 1, fails.i - 1)

RECURSIVE Hrefs(_)
Hrefs(links) ==        \* lines 71-75: no class attribute, and an href
    IF links = <<>> THEN <<>>
    ELSE (IF Head(links).class \in {NoAttribute, <<>>} /\ Head(links).href \notin {NoAttribute, <<>>}
          THEN <<Head(links).href>> ELSE <<>>) \o Hrefs(Tail(links))

extract_urls(link_elements, fails) == Hrefs(ReadBefore(link_elements, fails))

RECURSIVE AtTexts(_)
AtTexts(elements) ==   \* lines 95-98: the stripped text, when it starts with "@"
    IF elements = <<>> THEN <<>>
    ELSE (IF strip(Head(elements)) # <<>> /\ strip(Head(elements))[1] = "@"
          THEN <<strip(Head(elements))>> ELSE <<>>) \o AtTexts(Tail(elements))

extract_mentions(mention_elements, fails) == AtTexts(ReadBefore(mention_elements, fails))

OrEmpty(a) == IF a = NoAttribute THEN <<>> ELSE a     \* get_attribute(...) or ""

RECURSIVE Images(_)
Images(images) ==      \* lines 109-113
    IF images = <<>> THEN <<>>
    ELSE <<[type |-> "image", url |-> OrEmpty(Head(images).src),
            alt |-> OrEmpty(Head(images).alt)]>> \o Images(Tail(images))

Videos(n) == [i \in 1..n |-> [type |-> "video", url |-> <<>>, alt |-> <<>>]]   \* line 117

\* list.extend takes the dicts of the generator one by one: those made before
\* the exception stay in the list
extract_media(images, video_count, fails) ==
    IF fails = AtVideos THEN Images(images)
    ELSE IF fails = Nowhere THEN Images(images) \o Videos(video_count)
    ELSE Images(ReadBefore(images, fails))

\* lines 320-323 and 338-341: the four sub-fields of the record
SubFields(e, f) ==
    [urls |-> extract_urls(e.links, f.urls),
     mentions |-> extract_mentions(e.mentions, f.mentions),
     media |-> extract_media(e.images, e.videos, f.media)]

PlainLink == [class |-> NoAttribute, href |-> <<"http", "://", "a">>]
OtherLink == [class |-> NoAttribute, href |-> <<"https", "://", "b">>]
StyledLink == [class |-> <<"twitter-hashtag">>, href |-> <<"http", "://", "c">>]
LinkElements == SeqsUpTo({PlainLink, OtherLink, StyledLink}, MaxElements)
MentionElements == SeqsUpTo({<<"@", "a">>, <<" ", "@", "b">>, <<"a">>}, MaxElements)
ImageElements ==
    SeqsUpTo({[src |-> <<"pic", "1">>, alt |-> NoAttribute],
              [src |-> <<"pic", "2">>, alt |-> <<"a">>]}, MaxElements)

NoFailure == [urls |-> Nowhere, mentions |-> Nowhere, media |-> Nowhere]

\* where the calls of an extraction over n elements can raise
Failures(n) == {AtFind} \cup {AtElement(k) : k \in 1..n}

InitExtract ==
    /\ InitCrawl /\ feed = <<>> /\ InitExport
    /\ input \in [links : LinkElements, mentions : MentionElements,
                   images : ImageElements, videos : {0, 1}]
    /\ cache = <<>>
    /\ returned = <<>>

\* the sub-fields of the record of a container, of which at most one
\* extraction meets an exception; returned holds where, and the fields
CallExtract(f) ==
    /\ returned = <<>>
    /\ returned' = <<f, SubFields(input, f)>>
    /\ UNCHANGED <<input, cache, nocalls>>

NextExtract ==
    \/ CallExtract(NoFailure)
    \/ \E k \in Failures(Len(input.links)) :
          CallExtract([NoFailure EXCEPT !.urls = k])
    \/ \E k \in Failures(Len(input.mentions)) :
          CallExtract([NoFailure EXCEPT !.mentions = k])
    \/ \E k \in Failures(Len(input.images)) \cup {AtVideos} :
          CallExtract([NoFailure EXCEPT !.media = k])

SpecExtract == InitExtract /\ [][NextExtract]_vars

(***************************************************************************)
(* Properties.                                                             *)
(***************************************************************************)
Ids(p) == [i \in 1..Len(p) |-> p[i].tweet_id]

\* what the for loop leaves when the browser shows container c, and when it shows
\* it a second time, in a step that starts from the locals of the crawl
ShownOnce(c) == ProcessItem(c, "ok", tweet_type, LoopStart(posts, seen_ids))
ShownTwice(c) == ProcessItem(c, "ok", tweet_type, ShownOnce(c))

\* C1: in every crawl, fresh or resumed, no two accumulated (or returned) records
\* share a tweet_id; a container whose id is in the seen-id set appends nothing,
\* and a container shown twice in a step appends at most one record.
C1_UniqueTweetIds ==
    /\ NoDup(Ids(posts))
    /\ NoDup(Ids(outcome.posts))
    /\ pc = "loop" =>
          \A c \in Catalogue :
              /\ extract_tweet_id(c.href) \in seen_ids => ShownOnce(c).posts = posts
              /\ ShownTwice(c).posts = ShownOnce(c).posts
              /\ Len(ShownTwice(c).posts) <= Len(posts) + 1

\* a resumed crawl that has accepted a record on top of the restored ones, and to
\* which the browser can show again containers already recorded
C1_ResumedAndShownAgain ==
    /\ pc = "loop"
    /\ crawls = 2
    /\ start_scroll > 0
    /\ scrolls > start_scroll
    /\ Len(posts) >= 2
    /\ Len(posts) > Len(ckpt.posts)
    /\ \E c \in Catalogue : PassesFilter(c, tweet_type) /\ Record(c) \in Range(posts)

C3_CheckpointKeptOnTimeout ==
    (pc = "idle" /\ outcome.kind = "returned" /\ outcome.path = "timeout") => Exists(ckpt)

\* C4: at every point of a save, the canonical path holds the previous file or
\* the new complete snapshot; it never disappears and is never a partial file.
SavePcs == {"save_open", "save_dump", "save_replace"}

C4_AtomicSave ==
    [][ /\ ckpt'.kind \in {"absent", "snapshot"}
        /\ pc \in SavePcs =>
              /\ \/ ckpt' = ckpt
                 \/ pc = "save_replace" /\ ckpt' = Snapshot(posts, seen_ids, scrolls)
              /\ Exists(ckpt) => Exists(ckpt') ]_vars

\* the process was killed between the write of the temp file and the rename: the
\* canonical path still holds the previous snapshot
C4_KilledBeforeRename ==
    /\ pc = "idle"
    /\ outcome.kind = "crashed"
    /\ tmp.kind = "snapshot"
    /\ ckpt.kind = "snapshot"
    /\ tmp # ckpt

\* C5: a KeyboardInterrupt delivered during paging always leads to the interrupt
\* handler; the crawl does not go on paging after it.
C5_InterruptStopsPaging == event = "ki" => pc = "handler_ki"

\* C6: a timeout, an error or an interrupt during the initial navigation ends in
\* a return with a checkpoint saved; no exception leaves the function.
C6_NavigationFailureSaved ==
    (pc = "idle" /\ outcome.phase = "nav") => (outcome.kind = "returned" /\ Exists(ckpt))

\* C7: at the start of every pagination step the cursor exceeds the cursor of the
\* last durable snapshot (the starting cursor when there is none) by at most 4.
LastDurableCursor == IF ckpt.kind = "snapshot" THEN ckpt.scroll_count ELSE start_scroll

C7_CadenceBound == pc = "loop" => scrolls - LastDurableCursor <= 4

\* a crawl started at 0 stands at the start of the step after the one whose
\* cursor, a multiple of 5 below the target, made it save
C7_SavedAtMultiple ==
    /\ pc = "loop"
    /\ start_scroll = 0
    /\ scrolls = CheckpointEvery
    /\ scrolls < num_scrolls
    /\ ckpt.kind = "snapshot"
    /\ ckpt.scroll_count = scrolls

\* C8: the records a crawl returns obey its type filter: 'original' returns no
\* retweet and no quote, 'original_and_quotes' returns no retweet.
C8_ReturnedObeyFilter ==
    (pc = "idle" /\ outcome.kind = "returned") =>
        \A i \in 1..Len(outcome.posts) :
            /\ filter_retweets(tweet_type) => ~outcome.posts[i].is_retweet
            /\ filter_quotes(tweet_type) => ~outcome.posts[i].is_quote

\* C9: a crawl that finds a checkpoint file it cannot decode starts fresh: no
\* records, no seen ids, cursor 0.
C9_CorruptStartsFresh ==
    (pc = "nav" /\ ckpt.kind \notin {"absent", "snapshot"}) =>
        (posts = <<>> /\ seen_ids = {} /\ start_scroll = 0)

\* C10: the load at the start of a crawl restores the records (same order, same
\* fields), the seen-id set and the cursor of the save that wrote the file.
C10_RoundTrip ==
    (pc = "nav" /\ saved.valid) =>
        /\ posts = saved.posts
        /\ seen_ids = saved.seen_ids
        /\ start_scroll = saved.scroll_count

\* a crawl has loaded a checkpoint of several records, of seen ids without a
\* record, and of a cursor past 0
C10_LoadedRichCheckpoint ==
    /\ pc = "nav"
    /\ saved.valid
    /\ Len(posts) >= 2
    /\ Cardinality(seen_ids) > Len(posts)
    /\ start_scroll > 0

\* the paths on which the crawl counts as successful: target reached, stall exit
SuccessPaths == {"target", "stall"}

Succeeded(o) == o.kind = "returned" /\ o.path \in SuccessPaths

\* C11: on the success path the final checkpoint is saved, then the records are
\* sorted, then the checkpoint is removed, then the call returns; after the return
\* the canonical path holds no file, and the crawl started next starts fresh.
C11_SuccessTailOrder ==
    [][ /\ (pc' = "final_sort" /\ pc # "final_sort") =>
               (pc = "final" /\ ckpt' = Snapshot(posts, seen_ids, scrolls) /\ posts' = posts)
        /\ (pc' = "final_remove" /\ pc # "final_remove") =>
               (pc = "final_sort" /\ posts' = SortDesc(posts) /\ ckpt' = ckpt /\ Exists(ckpt))
        /\ (pc # "idle" /\ pc' = "idle" /\ Succeeded(outcome')) =>
               (pc = "final_remove" /\ ~Exists(ckpt') /\ outcome'.posts = posts)
        /\ (pc = "idle" /\ Succeeded(outcome) /\ pc' = "nav") =>
               (posts' = <<>> /\ seen_ids' = {} /\ start_scroll' = 0) ]_vars

\* a crawl has reached its target and returned several records; no file is left
C11_ReturnedAtTarget ==
    /\ pc = "idle"
    /\ outcome.kind = "returned"
    /\ outcome.path = "target"
    /\ Len(outcome.posts) >= 2
    /\ ~Exists(ckpt)

\* C12: three consecutive pagination steps that accept no record end the loop
\* after the third of them, through the success tail and without an error.
\* From every loop test: whatever the browser answers, two steps without a record
\* that come back to the loop are followed by a third that leaves through the
\* stall exit; a crawl that has accepted nothing never starts a fourth step; a
\* stall exit returns.
C12_ThreeEmptyStepsEndTheLoop ==
    /\ pc = "loop" =>
          \A a1 \in Advances(no_new_content_count, 0, grown) : a1.to = "loop" =>
             \A a2 \in Advances(a1.n, 0, a1.grown) : a2.to = "loop" =>
                \A a3 \in Advances(a2.n, 0, a2.grown) : a3.to = "final" /\ a3.path = "stall"
    /\ (pc = "loop" /\ posts = <<>> /\ start_scroll = 0) => scrolls < 3
    /\ (pc = "idle" /\ outcome.path = "stall") => (outcome.kind = "returned" /\ ~Exists(ckpt))

\* three steps of a crawl called for more, none of which accepted a record, have
\* ended the loop through the stall exit
C12_StalledAfterThree ==
    /\ pc = "final"
    /\ outcome.path = "stall"
    /\ start_scroll = 0
    /\ scrolls = 3
    /\ scrolls < num_scrolls
    /\ posts = <<>>

\* C15: what a successful crawl returns is a permutation of the accumulated
\* records, in non-increasing order of created_at.
Count(s, x) == Cardinality({i \in 1..Len(s) : s[i] = x})

IsPermutation(s, t) ==
    /\ Len(s) = Len(t)
    /\ \A x \in Range(s) \cup Range(t) : Count(s, x) = Count(t, x)

Descending(s) == \A i, j \in 1..Len(s) : i < j => s[i].created_at >= s[j].created_at

C15_ReturnedSortedPermutation ==
    /\ pc = "final_remove" => (Descending(posts) /\ IsPermutation(posts, saved.posts))
    /\ (pc = "idle" /\ Succeeded(outcome)) => Descending(outcome.posts)

\* the sort has reordered an accumulation of three records
C15_SortReordered ==
    /\ pc = "final_remove"
    /\ Len(posts) >= 3
    /\ posts # saved.posts
    /\ outcome.path \in SuccessPaths

\* C14: once the browser session exists, every way out of the crawl releases it
\* before control is back at the caller.
C14_SessionReleased == (pc = "idle" /\ crawls > 0) => driver # "open"

\* C13: a crawl with filter 'all' that starts without a checkpoint and runs to
\* its target undisturbed returns as many records as there are distinct
\* resolvable ids among the items of the pages it was shown; for the feed of 12
\* items on 3 pages (2 ids shown twice, 1 id unresolvable) it returns 9 records.
Shown(f) == UNION { Range(f[k]) : k \in 1..Len(f) }

ResolvableIds(f) == {extract_tweet_id(c.href) : c \in Shown(f)} \ {NoId}

ItemsOf(f) == [k \in 1..Len(f) |-> Len(f[k])]

C13_ReturnedCount ==
    (pc = "idle" /\ outcome.kind = "returned" /\ outcome.path = "target") =>
        /\ Len(outcome.posts) = Cardinality(ResolvableIds(feed))
        /\ {outcome.posts[i].tweet_id : i \in 1..Len(outcome.posts)} = ResolvableIds(feed)
        /\ feed = TwelveItems => Len(outcome.posts) = 9

\* the crawl of the 12 items on 3 pages has returned
C13_TwelveItemsCrawled ==
    /\ pc = "idle"
    /\ outcome.kind = "returned"
    /\ outcome.path = "target"
    /\ ItemsOf(feed) = <<4, 4, 4>>
    /\ Cardinality(ResolvableIds(feed)) = 9
    /\ \E c \in Shown(feed) : extract_tweet_id(c.href) = NoId
    /\ Len(outcome.posts) = 9

(***************************************************************************)
(* Properties of export_to_csv.                                            *)
(***************************************************************************)
\* the step is a call of export_to_csv in the given mode that writes a file
Exported(mode) == exports' = exports + 1 /\ last'.mode = mode /\ last'.path # NoPath

IdSet(rows) == {rows[i].tweet_id : i \in 1..Len(rows)}

Existing(d) == {f \in FileNames : d[f].exists}

\* the row of rows that has the id of r, r being a row of the file before
SameRecord(r, r2) ==
    /\ r2.tweet_id = r.tweet_id
    /\ r2.created_at = r.created_at
    /\ r2.urls.value = r.urls.value
    /\ r2.hashtags.value = r.hashtags.value

\* C16: a merge export of a duplicate-free set into a file of duplicate-free rows
\* leaves one row per distinct id of the two (|A| + |B| - shared ids), the row of
\* the file for an id of both, in non-increasing order of created_at.
C16_MergeUnion ==
    [][ (/\ Exported("merge")
         /\ disk[BaseName].exists
         /\ NoDup(Ids(disk[BaseName].rows))
         /\ NoDup(Ids(last'.tweets))) =>
            LET A == disk[BaseName].rows
                B == last'.tweets
                merged == disk'[BaseName].rows
            IN  /\ last'.path = BaseName
                /\ NoDup(Ids(merged))
                /\ IdSet(merged) = IdSet(A) \cup IdSet(B)
                /\ Len(merged) = Len(A) + Len(B) - Cardinality(IdSet(A) \cap IdSet(B))
                /\ \A i \in 1..Len(A) : \E j \in 1..Len(merged) : SameRecord(A[i], merged[j])
                /\ Descending(merged) ]_vars

\* two records were merged into a file of two rows with which they share id "2":
\* the file has three rows, and its row of id "2" is the one it had
C16_MergedSharedId ==
    /\ last.mode = "merge"
    /\ Len(last.tweets) = 2
    /\ Len(disk[BaseName].rows) = 3
    /\ \E i \in 1..2 : last.tweets[i].tweet_id = "2" /\ last.tweets[i].created_at = 3
    /\ \E j \in 1..3 : disk[BaseName].rows[j].tweet_id = "2"
                        /\ disk[BaseName].rows[j].created_at = 1

\* C17: a merge export leaves the list fields of the rows that were in the file
\* as they were: each still decodes, with one decode, to the list.
ListsKept(r, r2) ==
    /\ r2.urls = r.urls
    /\ r2.hashtags = r.hashtags
    /\ r2.mentions = r.mentions
    /\ r2.media = r.media
    /\ json_loads(r2.urls).depth = 0
    /\ json_loads(r2.media).depth = 0

C17_MergeKeepsListFields ==
    [][ Exported("merge") =>
            \A i \in 1..Len(disk[BaseName].rows) :
                \E j \in 1..Len(disk'[BaseName].rows) :
                    /\ disk'[BaseName].rows[j].tweet_id = disk[BaseName].rows[i].tweet_id
                    /\ ListsKept(disk[BaseName].rows[i], disk'[BaseName].rows[j]) ]_vars

\* C18: an export in 'timestamp' mode never writes to a name that is in use.
C18_TimestampNeverOverwrites ==
    [][ Exported("timestamp") => ~disk[last'.path].exists ]_vars

\* C19: an export in 'increment' mode writes to the base name if it is unused,
\* else to the first unused of base_1, base_2, ...; every file that existed is
\* left as it was, and there is one file more.
FirstUnusedSuffix(d) ==
    CHOOSE k \in 1..MaxExports :
        ~d[IncrementName(k)].exists /\ \A m \in 1..(k - 1) : d[IncrementName(m)].exists

C19_IncrementFreshName ==
    [][ Exported("increment") =>
            LET f == last'.path
            IN  /\ ~disk[f].exists
                /\ f = IF disk[BaseName].exists THEN IncrementName(FirstUnusedSuffix(disk))
                       ELSE BaseName
                /\ \A g \in FileNames \ {f} : disk'[g] = disk[g]
                /\ disk'[f] = Csv(Rows(last'.tweets))
                /\ Cardinality(Existing(disk')) = Cardinality(Existing(disk)) + 1 ]_vars

\* a third export in 'increment' mode has written base_2 next to base and base_1
C19_ThirdIncrement ==
    /\ last.mode = "increment"
    /\ last.path = IncrementName(2)
    /\ disk[BaseName].exists
    /\ disk[IncrementName(1)].exists
    /\ disk[IncrementName(2)] = Csv(Rows(last.tweets))

\* C20: an export in 'ask' mode asks exactly when the target exists; on an answer
\* other than 'y' it writes under the timestamp name and leaves the target as it
\* was; on 'y' it overwrites the target; without a target it writes it unasked.
C20_AskMode ==
    [][ Exported("ask") =>
            /\ last'.asked = disk[BaseName].exists
            /\ (last'.asked /\ last'.response # "y") =>
                   /\ last'.path = TimestampName(clock)
                   /\ disk'[BaseName] = disk[BaseName]
                   /\ disk'[last'.path] = Csv(Rows(last'.tweets))
            /\ (~last'.asked \/ last'.response = "y") =>
                   /\ last'.path = BaseName
                   /\ disk'[BaseName] = Csv(Rows(last'.tweets))
            /\ \A g \in FileNames \ {last'.path} : disk'[g] = disk[g] ]_vars

\* the overwrite was declined: the records are under the timestamp name, the
\* target holds other rows
C20_Declined ==
    /\ last.mode = "ask"
    /\ last.asked
    /\ last.response = "n"
    /\ last.path.kind = "timestamp"
    /\ disk[last.path] = Csv(Rows(last.tweets))
    /\ disk[BaseName].exists
    /\ disk[BaseName] # disk[last.path]

\* r is what r"/status/(\d+)" captures in url: the longest run of digits after the
\* first "/status/" that a digit follows, and no id when there is none
CapturedIn(r, url) ==
    LET At(i) == /\ i + 3 <= Len(url)
                 /\ SubSeq(url, i, i + 2) = <<"/", "status", "/">>
                 /\ url[i + 3] \in Digits
    IN  IF \E i \in 1..Len(url) : At(i)
        THEN \E i \in 1..Len(url) :
                /\ At(i)
                /\ \A j \in 1..(i - 1) : ~At(j)
                /\ Len(r) >= 1
                /\ i + 2 + Len(r) <= Len(url)
                /\ r = SubSeq(url, i + 3, i + 2 + Len(r))
                /\ \A j \in 1..Len(r) : r[j] \in Digits
                /\ (i + 3 + Len(r) <= Len(url) => url[i + 3 + Len(r)] \notin Digits)
        ELSE r = NoId

\* C21: every call of extract_tweet_id on a permalink text, served from the cache
\* or computed, returns the run of digits after the first "/status/" that digits
\* follow; it returns no id for an empty or non-matching text; the example URL
\* gives "1234567890"; repeated calls on the same text return the same result.
C21_TweetIdOfPermalink ==
    /\ \A i \in 1..Len(returned) : CapturedIn(returned[i], input)
    /\ \A i, j \in 1..Len(returned) : returned[i] = returned[j]
    /\ (input = <<>> /\ returned # <<>>) => returned[1] = NoId
    /\ (input = ExampleUrl /\ returned # <<>>) =>
           returned[1] = <<"1", "2", "3", "4", "5", "6", "7", "8", "9", "0">>

\* the example URL was looked up twice, the second time after the first result
\* had been evicted from the cache by a call on another URL
C21_ExampleCalledTwice ==
    /\ input = ExampleUrl
    /\ Len(returned) >= 2
    /\ returned[2] = <<"1", "2", "3", "4", "5", "6", "7", "8", "9", "0">>
    /\ ~CacheHit(cache, input)

\* the number the literal in text stands for, times c, in exact arithmetic (0 for
\* a text float() does not read)
NumericPartTimes(text, c) ==
    LET lit == FloatLiteral(text)
        v == (lit.n * c) \div lit.d
    IN  IF ~lit.ok THEN 0 ELSE IF lit.negative THEN -v ELSE v

\* C22: parse_engagement_number maps "1.2K" to 1200, "3M" to 3000000, "" to 0 and
\* "42" to 42; after lowercasing and stripping, a text containing 'k' gives its
\* numeric part times 1000, otherwise a text containing 'm' gives its numeric part
\* times 1000000, otherwise the integer formed by its digits; empty or unparsable
\* text gives 0.
C22_ParsedAsNumericPartTimesUnit ==
    returned # <<>> =>
        LET t == lower(strip(input))
        IN  /\ input = <<"1", ".", "2", "K">> => returned[1] = 1200
            /\ input = <<"3", "M">> => returned[1] = 3000000
            /\ input = <<>> => returned[1] = 0
            /\ input = <<"4", "2">> => returned[1] = 42
            /\ "k" \in Range(t) => returned[1] = NumericPartTimes(Without(t, "k"), 1000)
            /\ ("k" \notin Range(t) /\ "m" \in Range(t)) =>
                   returned[1] = NumericPartTimes(Without(t, "m"), 1000000)
            /\ Range(t) \cap {"k", "m"} = {} => returned[1] = IntOfDigits(Select(t, Digits))

\* C23: the retweet, like and comment counts of a container are non-negative
\* integers, whatever its counter texts are (a sign and stray characters included).
C23_CountsNonNegative ==
    Len(returned) = 2 =>
        /\ returned[2].retweet_count >= 0
        /\ returned[2].like_count >= 0
        /\ returned[2].comment_count >= 0

\* C24: every call of hash_username on a handle, served from the cache or computed,
\* in the same run or in a later one, returns a token of 16 hexadecimal digits, and
\* all the calls on the handle return the same token.
C24_HashFixedLength ==
    \A i \in 1..Len(returned) :
        /\ Len(returned[i]) = 16
        /\ \A j \in 1..Len(returned[i]) : returned[i][j] \in Range(HexChars)
        /\ returned[i] = returned[1]

\* the handle of the test was hashed twice, and a new run has started since
C24_HashedTwice ==
    /\ input = TestUser
    /\ Len(returned) >= 2
    /\ Len(returned[2]) = 16
    /\ cache = <<>>

\* C25: classify_sentiment returns exactly one of three labels for every compound
\* score: 'positive' exactly for the scores >= 0.05, 'negative' exactly for the
\* scores <= -0.05, 'neutral' for every other score.
C25_ThreeWayRule ==
    returned # <<>> =>
        /\ returned[1] \in {"positive", "negative", "neutral"}
        /\ returned[1] = "positive" <=> (~input.nan /\ input.v >= 500)
        /\ returned[1] = "negative" <=> (~input.nan /\ input.v <= -500)
        /\ returned[1] = "neutral" <=> (input.nan \/ (-500 < input.v /\ input.v < 500))

\* the score 0.05 itself was classified, as positive
C25_ThresholdClassified ==
    /\ input = Score(500)
    /\ returned = <<"positive">>

\* C26: with the default configuration, the text clean_text returns has no "@"
\* followed by word characters and no "https://", for every input text, those
\* that contain mentions and URLs included.
C26_NoMentionNoUrlPrefix ==
    returned # <<>> =>
        LET out == returned[1]
        IN  /\ \A i \in 1..(Len(out) - 1) : ~(out[i] = "@" /\ out[i + 1] \in Word)
            /\ \A i \in 1..(Len(out) - 3) :
                   SubSeq(out, i, i + 3) # <<"https", ":", "/", "/">>

\* the text of the test, with a mention and a URL, was cleaned
C26_ExampleCleaned ==
    /\ input = ExampleText
    /\ returned = << <<"check", " ", "this", " ", "out">> >>

\* C27: a crawl that runs to its target returns the set of records of the
\* uninterrupted crawl of the feed (one record for each resolvable id of its
\* pages), whether it started fresh or resumed from the checkpoint of an
\* interrupted crawl with the same target and filter.
C27_ResumedReturnsTheSame ==
    (pc = "idle" /\ outcome.kind = "returned" /\ outcome.path = "target") =>
        Range(Ids(outcome.posts)) = ResolvableIds(feed)

\* C28: an item that is rejected or skipped leaves the accumulation and the
\* seen-id set as they were; an id enters the seen-id set only together with the
\* append of its record; a skipped item is accepted when it is shown again.
C28_SkippedItemChangesNothing ==
    pc = "loop" =>
        \A c \in Catalogue, o \in {"ok", "no_permalink", "no_content"} :
            LET st == ProcessItem(c, o, tweet_type, LoopStart(posts, seen_ids))
            IN  /\ st.posts = posts => st.seen_ids = seen_ids
                /\ st.seen_ids # seen_ids => Len(st.posts) = Len(posts) + 1
                /\ (o # "ok" /\ Admitted(c, tweet_type, seen_ids)) =>
                       Len(ProcessItem(c, "ok", tweet_type, st).posts) = Len(posts) + 1

\* the state of the for loop after step k of an undisturbed fresh crawl of feed f;
\* its field new is the number of records step k accepted
RECURSIVE AfterPages(_, _, _)
AfterPages(f, tt, k) ==
    IF k = 0 THEN LoopStart(<<>>, {})
    ELSE ShowPage(f[k], 1, tt, [AfterPages(f, tt, k - 1) EXCEPT !.new = 0])

\* C29: the crawl ends early as 'feed exhausted' only at a step that accepted no
\* record and only when the three most recent steps each accepted none; never
\* after fewer than three consecutive steps without a record.
C29_StallOnlyAfterThreeEmptySteps ==
    (pc = "final" /\ outcome.path = "stall") =>
        /\ scrolls >= 3
        /\ \A k \in (scrolls - 2)..scrolls : AfterPages(feed, tweet_type, k).new = 0

\* C30: a step increments the stall counter on account of the scroll position
\* only when the height of the page is unchanged after the feed was advanced by
\* scrolling; as long as every scroll has grown the page, a step that accepts a
\* record leaves the stall counter at 0.
C30_StallCounterAndHeight ==
    [][ (pc = "loop" /\ pc' = "loop" /\ scrolls' = scrolls + 1) =>
            LET new == Len(posts') - Len(posts)
            IN  /\ no_new_content_count' > StallAfterPage(no_new_content_count, new) =>
                       (scrolls > start_scroll /\ ~grown)
                /\ (new > 0 /\ (scrolls = start_scroll \/ grown)) =>
                       no_new_content_count' = 0 ]_vars

\* the steps a crawl with target n can take from cursor c
StepsLeft(c, n) == IF n > c THEN n - c ELSE 0

\* C31: every crawl terminates; from the cursor c it starts with it completes at
\* most max(0, num_scrolls - c) pagination steps, each taken below the target;
\* with c >= num_scrolls it takes no step, keeps the restored records as they
\* are up to the final sort, and returns them.
C31_TerminatesWithinTarget ==
    /\ (pc # "idle") ~> (pc = "idle")
    /\ []((pc # "idle" /\ scrolls_bound) =>
             /\ scrolls >= start_scroll
             /\ scrolls - start_scroll <= StepsLeft(start_scroll, num_scrolls))
    /\ [][ (pc = "loop" /\ scrolls' # scrolls /\ pc' # "idle") => scrolls < num_scrolls ]_vars
    /\ [][ (pc \notin {"idle", "nav"} /\ start_scroll >= num_scrolls) =>
              /\ pc' # "loop"
              /\ pc' # "idle" => (scrolls' = scrolls /\ posts' \in {posts, SortDesc(posts)})
              /\ (pc' = "idle" /\ outcome'.kind = "returned") => outcome'.posts = posts ]_vars

\* a resumed crawl whose restored cursor is beyond its target is about to return
\* the records it restored, having taken no step
C31_ResumedBeyondTarget ==
    /\ pc = "final_remove"
    /\ crawls = 2
    /\ start_scroll > num_scrolls
    /\ scrolls = start_scroll
    /\ posts # <<>>

\* p is an initial part of q
IsPrefix(p, q) == Len(p) <= Len(q) /\ SubSeq(q, 1, Len(p)) = p

\* C32: while a crawl runs, every step other than the final sort leaves the
\* accumulation as it is or extends it at its end: the records appended so far
\* (and the restored ones) stay where they are, unmodified; the final sort only
\* reorders them.
C32_RecordsWriteOnce ==
    [][ (pc \notin {"idle", "final_sort"} /\ pc' # "idle") => IsPrefix(posts, posts') ]_vars
    /\ [][ (pc = "final_sort" /\ pc' # "idle") =>
               \/ pc' = "final_remove" /\ posts' = SortDesc(posts)
               \/ pc' = "handler_ki" /\ posts' = posts ]_vars
    /\ [][ (pc = "idle" /\ pc' # "idle") => posts' = LoadCheckpoint(ckpt).posts ]_vars

\* a resumed crawl has appended to the records it restored
C32_AppendedToRestored ==
    /\ pc = "loop"
    /\ crawls = 2
    /\ scrolls > start_scroll
    /\ saved.valid
    /\ saved.posts # <<>>
    /\ Len(posts) > Len(saved.posts)
    /\ IsPrefix(saved.posts, posts)

\* C33: while a crawl runs, the cursor never decreases and changes only by 1,
\* which every completed pagination step adds; it stays at or below num_scrolls
\* when the crawl started at or below it; every checkpoint write of the crawl
\* stores the cursor, so that successive writes store non-decreasing cursors.
C33_CursorMonotone ==
    /\ [][ (scrolls_bound /\ pc' # "idle") =>
              /\ scrolls' \in {scrolls, scrolls + 1}
              /\ (pc = "loop" /\ pc' = "loop") => scrolls' = scrolls + 1 ]_vars
    /\ []((scrolls_bound /\ start_scroll <= num_scrolls) => scrolls <= num_scrolls)
    /\ [][ (pc # "idle" /\ saved' # saved /\ saved'.valid) =>
              /\ saved'.scroll_count = scrolls'
              /\ saved.valid => saved'.scroll_count >= saved.scroll_count ]_vars

\* a crawl has written its second checkpoint, with a larger cursor than the first
C33_SecondCheckpoint ==
    /\ pc = "final_sort"
    /\ crawls = 1
    /\ scrolls = MaxTarget
    /\ saved.valid
    /\ saved.scroll_count = MaxTarget

\* the records a page adds when none of its containers shares an id with
\* another: those of the containers, in DOM order, that are processed without a
\* failure and are admitted
RECURSIVE Accepted(_, _, _, _)
Accepted(page, i, tt, seen) ==
    IF i > Len(page) THEN <<>>
    ELSE (IF page[i].during = "ok" /\ Admitted(page[i], tt, seen)
          THEN <<Record(page[i])>> ELSE <<>>) \o Accepted(page, i + 1, tt, seen)

\* C34: a step over a page some of whose containers fail while they are
\* processed (no interrupt arriving) skips exactly those containers: the others
\* are processed in DOM order and their records appended, the step completes,
\* the cursor advances by 1 and the crawl does not enter a handler.
C34_ItemErrorSkipsOnlyTheItem ==
    [][ (/\ pc = "loop"
         /\ scrolls < num_scrolls
         /\ \A i \in 1..Len(feed[scrolls + 1]) : feed[scrolls + 1][i].during # "ki_early") =>
            /\ pc' \in {"loop", "final"}
            /\ pc' = "final" => outcome'.path = "stall"
            /\ scrolls' = scrolls + 1
            /\ posts' = posts \o Accepted(feed[scrolls + 1], 1, tweet_type, seen_ids) ]_vars

\* the first container of the first page failed at its content lookup and the
\* second one was accepted in the same step
C34_SecondItemAccepted ==
    /\ pc = "loop"
    /\ scrolls = 1
    /\ tweet_type = "all"
    /\ feed[1][1].during = "no_content"
    /\ feed[1][2].during = "ok"
    /\ posts = <<Record(feed[1][2])>>

\* C35: when the extraction of urls, mentions or media meets an exception, that
\* field of the record is the empty list, and the other fields are what they
\* are without the exception.
C35_FailedSubFieldIsEmpty ==
    returned # <<>> =>
        LET f == returned[1]
            r == returned[2]
            clean == SubFields(input, NoFailure)
        IN  /\ f.urls # Nowhere => r.urls = <<>>
            /\ f.mentions # Nowhere => r.mentions = <<>>
            /\ f.media # Nowhere => r.media = <<>>
            /\ f.urls = Nowhere => r.urls = clean.urls
            /\ f.mentions = Nowhere => r.mentions = clean.mentions
            /\ f.media = Nowhere => r.media = clean.media

\* C36: a merge export into a file without repeated ids (or into no file)
\* writes a file without repeated ids, whatever the record list.
C36_MergeOneRowPerId ==
    [][ (Exported("merge") /\ NoDup(Ids(disk[BaseName].rows))) =>
            NoDup(Ids(disk'[BaseName].rows)) ]_vars

\* C37: after a merge export, whether it returns or raises, every id that was
\* in the target file is in it.
C37_MergeKeepsExistingIds ==
    [][ Exported("merge") => IdSet(disk[BaseName].rows) \subseteq IdSet(disk'[BaseName].rows) ]_vars

\* C38: the ids of the accumulated records are in the seen-id set, at every
\* point of every crawl, and the ids of the posts of every checkpoint written
\* (the file, the temporary file being written, the last save) are among its
\* seen_ids.
C38_PostIdsAreSeen ==
    /\ IdSet(posts) \subseteq seen_ids
    /\ ckpt.kind = "snapshot" => IdSet(ckpt.posts) \subseteq Range(ckpt.seen_ids)
    /\ tmp.kind = "snapshot" => IdSet(tmp.posts) \subseteq Range(tmp.seen_ids)
    /\ saved.valid => IdSet(saved.posts) \subseteq saved.seen_ids

\* a resumed crawl that has appended to the records it restored, with a
\* checkpoint holding records on disk
C38_ResumedAndAppended ==
    /\ pc = "loop"
    /\ crawls = 2
    /\ start_scroll > 0
    /\ ckpt.kind = "snapshot"
    /\ ckpt.posts # <<>>
    /\ Len(posts) > Len(ckpt.posts)
    /\ IdSet(posts) \subseteq seen_ids

====
